---- MODULE Spec2Model ----
(***************************************************************************)
(* Forecasting core of src/workflows/airqo_etl_utils/ml_utils.py:          *)
(* the model registry (GCSUtils), the lag / rolling / cyclic feature       *)
(* engineering (BaseMlUtils) and the recursive forecast loop               *)
(* (ForecastUtils.generate_forecasts).                                     *)
(*                                                                         *)
(* A table (pandas DataFrame) is a record [cols, rows]: cols is the        *)
(* ordered column list, rows a sequence of functions column -> cell.       *)
(* pm2_5 cells are integers.  A derived float cell is a tuple: <<>> is the *)
(* missing marker (NaN), <<v>> a value, and an aggregate is the exact      *)
(* rational / moment tuple that determines the float pandas would return.  *)
(* Timestamps are whole hours since 2023-01-01T00:00 (a Sunday).           *)
(***************************************************************************)
EXTENDS Integers, Sequences, FiniteSets, TLC

VARIABLES
    frequency,     \* the frequency argument of the run
    data,          \* the table the current stage received
    pc,            \* position of the run in the pipeline
    features,      \* output of get_lag_and_roll_features
    chained,       \* which chained assignments of the pandas build reach df_tmp
    horizon,       \* configuration.<FREQ>_FORECAST_HORIZON
    blobs,         \* bucket content: blob name -> artifact
    now,           \* datetime.now()
    saving,        \* upload_trained_model_to_gcs in progress
    saved,         \* artifacts of the completed uploads, in order
    forecast_model,\* artifact loaded by generate_forecasts
    devices,       \* devices generate_forecasts still has to forecast
    df_tmp,        \* get_forecasts: the extended series of the current device
    i,             \* get_forecasts: completed iterations for the current device
    handed,        \* column list and values of the last row given to predict
    preds,         \* predictions written for the current device, in order
    seedlen,       \* number of seed rows of the current device
    recomputed,    \* lag / rolling columns assigned by the last loop iteration
    forecasts,     \* accumulated / returned forecast table
    collection,    \* documents of db.<frequency>_forecasts_1, in insertion order
    forecast_results, \* save_forecasts_to_mongo: records still to be written
    written,       \* records the current save has gone through, with outcome
    last,          \* key -> record of the latest write attempted for the key
    result,        \* what the last call of a table function returned or raised
    job,           \* the job_type argument the caller passes to preprocess_data
    source,        \* the table as the caller held it before the call
    events,        \* rows of the warehouse table of forecast events, in order
    stored         \* the warehouse save of the run has finished

\* the arguments of a call of a table function, as the caller made it
call == <<job, source>>

\* state of the warehouse side of the forecast sink
warehouse == <<events, stored>>

\* state of the forecast sink
sink == <<collection, forecast_results, written, last>>

vars == <<frequency, data, pc, features, chained, horizon, blobs, now, saving,
          saved, forecast_model, devices, df_tmp, i, handed, preds, seedlen,
          recomputed, forecasts, sink, result, call, warehouse>>

----------------------------------------------------------------------------
(* Bounds of the model *)

MaxRows == 4        \* free rows of an input table of the feature stage
MaxTail == 2        \* free rows after a long history, feature stage
MaxSeed == 2        \* free rows of an input table of a forecast run
MaxHorizon == 3     \* largest configured horizon
MaxSaves == 3       \* uploads in one registry history
MaxClock == 2       \* largest clock reading
MaxMonths == 12     \* months of rows of a device in a training table
MaxRaw == 3         \* rows of a fetched table

Devices == {"d1", "d2"}
Values == {1, 2}
Frequencies == {"hourly", "daily"}

----------------------------------------------------------------------------
(* Cells *)

NaN == <<>>

Num(v) == <<v>>

Pow(x, n) == IF n = 1 THEN x ELSE IF n = 2 THEN x * x ELSE x * x * x

RECURSIVE SumPowTo(_, _, _)
\* w[1]^n + ... + w[m]^n
SumPowTo(w, n, m) == IF m = 0 THEN 0 ELSE Pow(w[m], n) + SumPowTo(w, n, m - 1)

SumPow(w, n) == SumPowTo(w, n, Len(w))

SumSeq(w) == SumPow(w, 1)

MaxOf(w) == CHOOSE x \in {w[k] : k \in 1..Len(w)} : \A k \in 1..Len(w) : w[k] <= x

MinOf(w) == CHOOSE x \in {w[k] : k \in 1..Len(w)} : \A k \in 1..Len(w) : x <= w[k]

\* the k-th smallest element of w (1-based)
KthSmallest(w, k) ==
    CHOOSE x \in {w[q] : q \in 1..Len(w)} :
        /\ Cardinality({q \in 1..Len(w) : w[q] < x}) < k
        /\ Cardinality({q \in 1..Len(w) : w[q] <= x}) >= k

\* Window aggregate of pandas .rolling(s).agg(f) over a full window w of
\* numbers, n = Len(w):
\*   mean   <<sum, n>>                        the rational sum / n
\*   std    <<n*sum(x^2) - sum^2, n*(n-1)>>   the sample variance (ddof = 1);
\*                                            std is its square root
\*   max, min  <<x>>
\*   median <<twice the median, 2>>
\*   skew   <<M3, M2>>  n^3 and n^2 times the 3rd and 2nd central moments,
\*                      which with n determine the sample skewness
Agg(f, w) ==
    LET n == Len(w)
        s1 == SumSeq(w)
        s2 == SumPow(w, 2)
        s3 == SumPow(w, 3)
    IN  CASE f = "mean" -> <<s1, n>>
          [] f = "std" -> <<n * s2 - s1 * s1, n * (n - 1)>>
          [] f = "max" -> <<MaxOf(w)>>
          [] f = "min" -> <<MinOf(w)>>
          [] f = "median" ->
                <<KthSmallest(w, (n + 1) \div 2) + KthSmallest(w, (n + 2) \div 2), 2>>
          [] f = "skew" ->
                <<n * n * s3 - 3 * n * s1 * s2 + 2 * s1 * s1 * s1, n * s2 - s1 * s1>>

----------------------------------------------------------------------------
(* Tables *)

\* a function on 1..n as an explicit sequence (a Series / ndarray held in memory)
AsSeq(f) == SubSeq(f, 1, Len(f))

NRows(df) == Len(df.rows)

HasColumn(df, c) == \E k \in 1..Len(df.cols) : df.cols[k] = c

\* df[c]
Column(df, c) == AsSeq([r \in 1..NRows(df) |-> df.rows[r][c]])

\* df[names[k]] = series[k] for k = 1, 2, ... in this order, the names being
\* distinct: existing columns keep their position, new ones are appended
SetColumns(df, names, series) ==
    LET old == {df.cols[k] : k \in 1..Len(df.cols)}
        set == {names[k] : k \in 1..Len(names)}
        src == [c \in set |-> CHOOSE k \in 1..Len(names) : names[k] = c]
    IN  [cols |-> df.cols \o SelectSeq(names, LAMBDA c : c \notin old),
         rows |-> AsSeq([r \in 1..NRows(df) |->
                     [c \in old \cup set |->
                         IF c \in set THEN series[src[c]][r] ELSE df.rows[r][c]]])]

\* the columns of cols that are not in the set excl, in their order
Without(cols, excl) == SelectSeq(cols, LAMBDA c : c \notin excl)

\* df.drop(columns = excl) / df[keep]
DropColumns(df, excl) ==
    LET keep == Without(df.cols, excl)
        names == {keep[k] : k \in 1..Len(keep)}
    IN  [cols |-> keep,
         rows |-> AsSeq([r \in 1..NRows(df) |-> [c \in names |-> df.rows[r][c]]])]

\* shift towards the past: row r takes the cell s rows below
ShiftBackward(series, s) ==
    AsSeq([r \in 1..Len(series) |->
        IF r + s <= Len(series) THEN Num(series[r + s]) ELSE NaN])

\* series.shift(s) : row r takes the cell s rows above, NaN when there is none
Shift(series, s) ==
    AsSeq([r \in 1..Len(series) |-> IF r > s THEN Num(series[r - s]) ELSE NaN])

\* the shift without the grouping: df[target_col].shift(s)
GroupShiftUngrouped(df, target_col, s) == Shift(Column(df, target_col), s)

\* df.groupby(["device_id"])[target_col].shift(s) : row r takes the target
\* of the s-th earlier row (in table order) of its own device
GroupShift(df, target_col, s) ==
    AsSeq([r \in 1..NRows(df) |->
        LET prev == {q \in 1..(r - 1) : df.rows[q]["device_id"] = df.rows[r]["device_id"]}
        IN  IF Cardinality(prev) >= s
            THEN LET q == CHOOSE p \in prev :
                              Cardinality({x \in prev : x >= p}) = s
                 IN  Num(df.rows[q][target_col])
            ELSE NaN])

\* series.rolling(s).agg(f) on a float series: the window is the s cells
\* ending at row r (min_periods = s: any missing cell gives NaN)
Rolling(series, s, f) ==
    AsSeq([r \in 1..Len(series) |->
        IF r >= s /\ \A q \in (r - s + 1)..r : series[q] # NaN
        THEN Agg(f, AsSeq([k \in 1..s |-> series[r - s + k][1]]))
        ELSE NaN])

----------------------------------------------------------------------------
(* Lag / rolling vocabulary *)

Unit(freq) == IF freq = "daily" THEN "day" ELSE "hour"

LagShifts(freq) == IF freq = "daily" THEN <<1, 2, 3, 7>> ELSE <<1, 2, 6, 12>>

RollShifts(freq) == IF freq = "daily" THEN <<2, 3, 7>> ELSE <<3, 6, 12, 24>>

RollFunctions(freq) ==
    IF freq = "daily" THEN <<"mean", "std", "max", "min">>
    ELSE <<"mean", "std", "median", "skew">>

LagName(s, freq) == "pm2_5_last_" \o ToString(s) \o "_" \o Unit(freq)

RollName(f, s, freq) == "pm2_5_" \o f \o "_" \o ToString(s) \o "_" \o Unit(freq)

\* the <<f, s>> pairs in the order of the nested loops (s outer, f inner)
RollPairs(freq) ==
    LET S == RollShifts(freq)
        F == RollFunctions(freq)
    IN  [k \in 1..(Len(S) * Len(F)) |->
            <<F[((k - 1) % Len(F)) + 1], S[((k - 1) \div Len(F)) + 1]>>]

----------------------------------------------------------------------------
(* BaseMlUtils.get_lag_and_roll_features *)

Raise(msg) == [ok |-> FALSE, error |-> msg]

Return(df) == [ok |-> TRUE, df |-> df]

LagSeries(df, target_col, freq) ==
    AsSeq([k \in 1..Len(LagShifts(freq)) |-> GroupShift(df, target_col, LagShifts(freq)[k])])

\* groupby(device_id)[target].shift(1) is per device; .rolling(s) then runs
\* over the whole shifted column in table order
RollSeries(df, target_col, freq) ==
    LET shifted == GroupShift(df, target_col, 1)
    IN  AsSeq([k \in 1..Len(RollPairs(freq)) |->
            Rolling(shifted, RollPairs(freq)[k][2], RollPairs(freq)[k][1])])

LagNames(freq) == [k \in 1..Len(LagShifts(freq)) |-> LagName(LagShifts(freq)[k], freq)]

RollNames(freq) ==
    [k \in 1..Len(RollPairs(freq)) |->
        RollName(RollPairs(freq)[k][1], RollPairs(freq)[k][2], freq)]

get_lag_and_roll_features(df, target_col, freq) ==
    IF NRows(df) = 0 THEN Raise("Empty dataframe provided")
    ELSE IF ~HasColumn(df, target_col) \/ ~HasColumn(df, "timestamp")
            \/ ~HasColumn(df, "device_id")
    THEN Raise("Required columns missing")
    ELSE IF freq \notin {"daily", "hourly"} THEN Raise("Invalid frequency")
    ELSE Return(SetColumns(
             SetColumns(df, LagNames(freq), LagSeries(df, target_col, freq)),
             RollNames(freq), RollSeries(df, target_col, freq)))

----------------------------------------------------------------------------
(* Calendar of a timestamp (hours since 2023-01-01T00:00, within January) *)

DayIndex(ts) == ts \div 24

Calendar(ts, a) ==
    CASE a = "year" -> 2023
      [] a = "month" -> 1
      [] a = "day" -> DayIndex(ts) + 1
      [] a = "dayofweek" -> (DayIndex(ts) + 6) % 7
      [] a = "hour" -> ts % 24
      [] a = "week" -> IF DayIndex(ts) = 0 THEN 52 ELSE ((DayIndex(ts) - 1) \div 7) + 1

Attributes(freq) ==
    IF freq = "hourly" THEN <<"year", "month", "day", "dayofweek", "hour">>
    ELSE <<"year", "month", "day", "dayofweek">>

max_vals(freq) ==
    IF freq = "hourly" THEN <<2023, 12, 30, 7, 23>> ELSE <<2023, 12, 30, 7>>

\* the pair (sin, cos)(2 * pi * a / m) is determined by <<a, m>>
Cyclic(a, m) == <<a, m>>

\* column names and periods in the order the sin / cos columns are written
CyclicNames(freq) ==
    LET A == Attributes(freq)
    IN  [k \in 1..(2 * Len(A)) |->
            A[(k + 1) \div 2] \o (IF k % 2 = 1 THEN "_sin" ELSE "_cos")]
        \o <<"week_sin", "week_cos">>

CyclicOf(ts, freq) ==
    LET A == Attributes(freq)
    IN  [k \in 1..(2 * Len(A)) |->
            Cyclic(Calendar(ts, A[(k + 1) \div 2]), max_vals(freq)[(k + 1) \div 2])]
        \o <<Cyclic(Calendar(ts, "week"), 52), Cyclic(Calendar(ts, "week"), 52)>>

get_time_features(df, freq) ==
    IF NRows(df) = 0 THEN Raise("Empty dataframe provided")
    ELSE IF ~HasColumn(df, "timestamp") THEN Raise("Required columns missing")
    ELSE IF freq \notin {"daily", "hourly"} THEN Raise("Invalid frequency")
    ELSE LET A == Attributes(freq) \o <<"week">>
         IN  Return(SetColumns(df, A,
                 [k \in 1..Len(A) |->
                     [r \in 1..NRows(df) |-> Calendar(df.rows[r]["timestamp"], A[k])]]))

get_cyclic_features(df, freq) ==
    LET t == get_time_features(df, freq)
    IN  IF ~t.ok THEN t
        ELSE LET names == CyclicNames(freq)
                 A == Attributes(freq) \o <<"week">>
             IN  Return(DropColumns(
                     SetColumns(t.df, names,
                         [k \in 1..Len(names) |->
                             [r \in 1..NRows(df) |->
                                 CyclicOf(df.rows[r]["timestamp"], freq)[k]]]),
                     {A[k] : k \in 1..Len(A)}))

\* x, y, z on the unit sphere are determined by <<latitude, longitude>>
get_location_features(df) ==
    IF NRows(df) = 0 THEN Raise("Empty dataframe provided")
    ELSE IF \E c \in {"timestamp", "latitude", "longitude"} : ~HasColumn(df, c)
    THEN Raise("column is missing")
    ELSE Return(SetColumns(df, <<"x_cord", "y_cord", "z_cord">>,
             [k \in 1..3 |->
                 [r \in 1..NRows(df) |->
                     <<df.rows[r]["latitude"], df.rows[r]["longitude"]>>]]))

----------------------------------------------------------------------------
(* GCSUtils: the bucket of model artifacts *)

bucket == "bucket"

ModelKey(freq) == freq \o "_forecast_model.pkl"

BlobPath(bucket_name, blob_name) == bucket_name \o "/" \o blob_name

\* the clock reading as a suffix of the key: f"{bucket_name}/{source_blob_name}-{now}"
BackupPathSuffixed(bucket_name, clock, source_blob_name) ==
    bucket_name \o "/" \o source_blob_name \o "-" \o ToString(clock)

\* f"{bucket_name}/{datetime.now()}-{source_blob_name}"
BackupPath(bucket_name, clock, source_blob_name) ==
    bucket_name \o "/" \o ToString(clock) \o "-" \o source_blob_name

Exists(fs, path) == path \in DOMAIN fs

Remove(fs, path) == [n \in (DOMAIN fs) \ {path} |-> fs[n]]

Put(fs, path, artifact) == (path :> artifact) @@ fs

\* a copy instead of a move: the source blob stays in place
RenameKeepsSource(fs, src, dst) == Put(fs, dst, fs[src])

\* fs.rename(src, dst): raises when src is absent, else moves the blob,
\* replacing whatever dst held
Rename(fs, src, dst) == Put(Remove(fs, src), dst, fs[src])

----------------------------------------------------------------------------
(* Feature columns of training and of prediction *)

TrainExcluded == {"timestamp", "pm2_5", "latitude", "longitude", "device_id"}

\* train_and_save_forecast_models: features = [c for c in columns if c not in ...]
TrainFeatures(cols) == Without(cols, TrainExcluded)

excluded_columns ==
    {"device_id", "site_id", "pm2_5", "timestamp", "latitude", "longitude"}

\* get_forecasts: df_tmp.drop(excluded_columns, axis=1)
PredictFeatures(cols) == Without(cols, excluded_columns)

IndexOf(cols, c) == CHOOSE k \in 1..Len(cols) : cols[k] = c

\* The regressor is an opaque artifact; predict is a function of the row it
\* is given.  Two regressors are modelled: "lag1" returns the lag-1 feature
\* of the row, "inc" returns that feature plus one.
ModelKinds == {"lag1", "inc"}

\* a regressor whose prediction also draws on the clock reading
PredictDrifting(model, cols, values, freq) ==
    LET c == LagName(1, freq)
        x == IF \E k \in 1..Len(cols) : cols[k] = c
             THEN values[IndexOf(cols, c)] ELSE NaN
        v == IF x = NaN THEN 0 ELSE x[1]
    IN  IF model.kind = "inc" THEN v + 1 + now ELSE v + now

Predict(model, cols, values, freq) ==
    LET c == LagName(1, freq)
        x == IF \E k \in 1..Len(cols) : cols[k] = c
             THEN values[IndexOf(cols, c)] ELSE NaN
        v == IF x = NaN THEN 0 ELSE x[1]
    IN  IF model.kind = "inc" THEN v + 1 ELSE v

----------------------------------------------------------------------------
(* Input tables: the preprocessed observations a run starts from.  Every   *)
(* device's rows are in timestamp order, one frequency step apart; rows of *)
(* different devices may be interleaved.                                   *)

RawColumns == <<"device_id", "site_id", "timestamp", "pm2_5", "latitude", "longitude">>

SiteOf(d) == IF d = "d1" THEN "s1" ELSE "s2"

LatOf(d) == IF d = "d1" THEN 0 ELSE 1

Step(freq) == IF freq = "daily" THEN 24 ELSE 1

LargestWindow(freq) == RollShifts(freq)[Len(RollShifts(freq))]

SeqsUpTo(S, n) == UNION {[1..k -> S] : k \in 1..n}

\* a history of device d1 as long as the largest rolling window
PadShape(freq) == [k \in 1..LargestWindow(freq) |-> <<"d1", 1 + (k % 2)>>]

\* the same history with a constant target c
ConstShape(freq, c) == [k \in 1..LargestWindow(freq) |-> <<"d1", c>>]

\* shape: a sequence of <<device, pm2_5>> pairs
MakeTable(shape, freq) ==
    [cols |-> RawColumns,
     rows |-> [r \in 1..Len(shape) |->
        LET d == shape[r][1]
            ord == Cardinality({q \in 1..(r - 1) : shape[q][1] = d})
        IN  [c \in {RawColumns[k] : k \in 1..Len(RawColumns)} |->
                CASE c = "device_id" -> d
                  [] c = "site_id" -> SiteOf(d)
                  [] c = "timestamp" -> Step(freq) * ord
                  [] c = "pm2_5" -> shape[r][2]
                  [] c = "latitude" -> LatOf(d)
                  [] c = "longitude" -> LatOf(d)]]]

EmptyTable == [cols |-> <<>>, rows |-> <<>>]

NoArtifact == [kind |-> "none", features |-> <<>>]

NoResult == [ok |-> TRUE, df |-> EmptyTable]

\* everything but frequency and data
InitRest ==
    /\ pc = "raw"
    /\ features = EmptyTable
    /\ chained = "undetermined"
    /\ horizon = 0
    /\ blobs = <<>>
    /\ now = 0
    /\ saving = <<>>
    /\ saved = <<>>
    /\ forecast_model = NoArtifact
    /\ devices = <<>>
    /\ df_tmp = EmptyTable
    /\ i = 0
    /\ handed = [cols |-> <<>>, values |-> <<>>]
    /\ preds = <<>>
    /\ seedlen = 0
    /\ recomputed = <<>>
    /\ forecasts = EmptyTable
    /\ collection = <<>>
    /\ forecast_results = <<>>
    /\ written = <<>>
    /\ last = <<>>
    /\ result = NoResult
    /\ job = "prediction"
    /\ source = EmptyTable
    /\ events = <<>>
    /\ stored = FALSE

----------------------------------------------------------------------------
(* The feature stages of the forecasting job (dags/ml_prediction_jobs.py)  *)

GetLagAndRollFeatures ==
    /\ pc = "raw"
    /\ LET res == get_lag_and_roll_features(data, "pm2_5", frequency)
       IN  IF res.ok
           THEN features' = res.df /\ pc' = "lagged"
           ELSE features' = features /\ pc' = "failed"
    /\ UNCHANGED <<sink, result, warehouse, call, frequency, data, chained, horizon, blobs, now, saving, saved,
                   forecast_model, devices, df_tmp, i, handed, preds, seedlen,
                   recomputed, forecasts>>

\* get_time_features followed by get_cyclic_features
GetCyclicFeatures ==
    /\ pc = "lagged"
    /\ LET t == get_time_features(features, frequency)
           res == IF t.ok THEN get_cyclic_features(t.df, frequency) ELSE t
       IN  IF res.ok
           THEN features' = res.df /\ pc' = "cyclic"
           ELSE features' = features /\ pc' = "failed"
    /\ UNCHANGED <<sink, result, warehouse, call, frequency, data, chained, horizon, blobs, now, saving, saved,
                   forecast_model, devices, df_tmp, i, handed, preds, seedlen,
                   recomputed, forecasts>>

GetLocationFeatures ==
    /\ pc = "cyclic"
    /\ LET res == get_location_features(features)
       IN  IF res.ok
           THEN features' = res.df /\ pc' = "featured"
           ELSE features' = features /\ pc' = "failed"
    /\ UNCHANGED <<sink, result, warehouse, call, frequency, data, chained, horizon, blobs, now, saving, saved,
                   forecast_model, devices, df_tmp, i, handed, preds, seedlen,
                   recomputed, forecasts>>

----------------------------------------------------------------------------
(* ForecastUtils.generate_forecasts.get_forecasts: one loop iteration *)

\* What a chained assignment on the temporary df_tmp.tail(1) does to df_tmp
\* is decided by the pandas build, not by this code:
\*   "setitem"  tail(1) is a view and column assignment writes into it
\*   "iadd"     only the in-place += on a column of the view writes through
\*   "none"     tail(1) never shares memory with df_tmp (copy-on-write)
ChainedModes == {"setitem", "iadd", "none"}

LastRow(df) == df.rows[NRows(df)]

SetLast(df, c, v) == [df EXCEPT !.rows[NRows(df)] = (c :> v) @@ @]

\* pd.concat([df_tmp, df_tmp.iloc[-1:]], ignore_index=True)
DuplicateLast(df) == [df EXCEPT !.rows = Append(@, @[Len(@)])]

\* hourly: df_tmp.iloc[-1, ts] = df_tmp.iloc[-2, ts] + 1 hour
HourlyTimestamp(df) ==
    SetLast(df, "timestamp", df.rows[NRows(df) - 1]["timestamp"] + 1)

\* daily: df_tmp.tail(1)["timestamp"] += timedelta(days=1)
DailyTimestamp(df, mode) ==
    IF mode \in {"setitem", "iadd"}
    THEN SetLast(df, "timestamp", LastRow(df)["timestamp"] + 24)
    ELSE df

shifts1(freq) ==
    IF freq = "daily" THEN <<1, 2, 3, 7>>
    ELSE IF freq = "hourly" THEN <<1, 2, 6, 12>> ELSE <<>>

\* the windows of the loop without the largest hourly one
shifts2Short(freq) ==
    IF freq = "daily" THEN <<2, 3, 7>>
    ELSE IF freq = "hourly" THEN <<3, 6, 12>> ELSE <<>>

shifts2(freq) ==
    IF freq = "daily" THEN <<2, 3, 7>>
    ELSE IF freq = "hourly" THEN <<3, 6, 12, 24>> ELSE <<>>

functions(freq) ==
    IF freq = "daily" THEN <<"mean", "std", "max", "min">>
    ELSE IF freq = "hourly" THEN <<"mean", "std", "median", "skew">> ELSE <<>>

LoopLagNames(freq) == [k \in 1..Len(shifts1(freq)) |-> LagName(shifts1(freq)[k], freq)]

LoopRollPairs(freq) ==
    LET S == shifts2(freq)
        F == functions(freq)
    IN  [k \in 1..(Len(S) * Len(F)) |->
            <<F[((k - 1) % Len(F)) + 1], S[((k - 1) \div Len(F)) + 1]>>]

LoopRollNames(freq) ==
    [k \in 1..Len(LoopRollPairs(freq)) |->
        RollName(LoopRollPairs(freq)[k][1], LoopRollPairs(freq)[k][2], freq)]

\* lags taken from the seed part only: the appended predictions read as the
\* last observation
LoopLagSeriesStale(df, freq) ==
    LET pm2_5 == Column(df, "pm2_5")
    IN  AsSeq([k \in 1..Len(shifts1(freq)) |-> Shift(pm2_5, shifts1(freq)[k] + 1)])

\* df_tmp[f"pm2_5_last_{s}_..."] = df_tmp.shift(s, axis=0)["pm2_5"]
LoopLagSeries(df, freq) ==
    LET pm2_5 == Column(df, "pm2_5")
    IN  AsSeq([k \in 1..Len(shifts1(freq)) |-> Shift(pm2_5, shifts1(freq)[k])])

\* the rolling aggregates without the one-step lookback
LoopRollSeriesNoLookback(df_tmp_no_ts, freq) ==
    LET own == [r \in 1..NRows(df_tmp_no_ts) |-> Num(df_tmp_no_ts.rows[r]["pm2_5"])]
    IN  AsSeq([k \in 1..Len(LoopRollPairs(freq)) |->
            Rolling(own, LoopRollPairs(freq)[k][2], LoopRollPairs(freq)[k][1])])

\* df_tmp[...] = df_tmp_no_ts.shift(1, axis=0).rolling(s).agg(f)["pm2_5"]
LoopRollSeries(df_tmp_no_ts, freq) ==
    LET shifted == Shift(Column(df_tmp_no_ts, "pm2_5"), 1)
    IN  AsSeq([k \in 1..Len(LoopRollPairs(freq)) |->
            Rolling(shifted, LoopRollPairs(freq)[k][2], LoopRollPairs(freq)[k][1])])

\* df_tmp.tail(1)[f"{a}_sin"] = ..., [f"{a}_cos"] = ..., week_sin, week_cos
LoopCyclic(df, freq, mode) ==
    LET names == CyclicNames(freq)
        cells == CyclicOf(LastRow(df)["timestamp"], freq)
        hit == {k \in 1..Len(names) : HasColumn(df, names[k])}
    IN  IF mode = "setitem"
        THEN [df EXCEPT !.rows[NRows(df)] =
                 [c \in DOMAIN @ |->
                     IF \E k \in hit : names[k] = c
                     THEN cells[CHOOSE k \in hit : names[k] = c]
                     ELSE @[c]]]
        ELSE df

\* df_tmp.drop(excluded_columns, axis=1).tail(1).values.reshape(1, -1)
HandedRow(df) ==
    LET cols == PredictFeatures(df.cols)
    IN  [cols |-> cols, values |-> [k \in 1..Len(cols) |-> LastRow(df)[cols[k]]]]

\* the table after the feature updates of one iteration, before predict
Scaffold(df, freq, mode) ==
    LET ext == DuplicateLast(df)
        df_tmp_no_ts == DropColumns(ext, {"timestamp", "device_id", "site_id"})
        stamped == IF freq = "daily" THEN DailyTimestamp(ext, mode)
                   ELSE IF freq = "hourly" THEN HourlyTimestamp(ext) ELSE ext
        lagged == SetColumns(stamped, LoopLagNames(freq), LoopLagSeries(stamped, freq))
        rolled == SetColumns(lagged, LoopRollNames(freq),
                             LoopRollSeries(df_tmp_no_ts, freq))
    IN  LoopCyclic(rolled, freq, mode)

\* one row more than the horizon: df_tmp.iloc[-int(horizon) - 1:, :]
TailRowsOneMore(df, h) ==
    [df EXCEPT !.rows = SubSeq(@, Len(@) - h, Len(@))]

\* df_tmp.iloc[-int(horizon):, :]
TailRows(df, h) ==
    [df EXCEPT !.rows = SubSeq(@, IF h = 0 THEN 1 ELSE Len(@) - h + 1, Len(@))]

\* pd.concat([forecasts, device_forecasts], ignore_index=True)
Concat(df1, df2) ==
    IF df1.cols = <<>> THEN df2 ELSE [df1 EXCEPT !.rows = @ \o df2.rows]

\* df[["device_id", "site_id", "timestamp", "pm2_5"]]
OutputColumns == <<"device_id", "site_id", "timestamp", "pm2_5">>

Project(df, keep) ==
    [cols |-> keep,
     rows |-> [r \in 1..NRows(df) |->
                 [c \in {keep[k] : k \in 1..Len(keep)} |-> df.rows[r][c]]]]

RECURSIVE Unique(_)
\* series.unique(): the distinct values in first-seen order
Unique(seq) ==
    IF seq = <<>> THEN <<>>
    ELSE LET front == Unique(SubSeq(seq, 1, Len(seq) - 1))
             x == seq[Len(seq)]
         IN  IF \E k \in 1..Len(front) : front[k] = x THEN front ELSE Append(front, x)

\* the whole table, whatever the device
RowsOfAll(df, device) == df

\* df[df["device_id"] == device]
RowsOf(df, device) ==
    [df EXCEPT !.rows = SelectSeq(@, LAMBDA row : row["device_id"] = device)]

----------------------------------------------------------------------------
(* GCSUtils.upload_trained_model_to_gcs / get_trained_model_from_gcs *)

Writers == {"w1"}

Idle == DOMAIN saving = {}

\* a load that hands back an empty model when the blob is absent
get_model_or_default(fs, bucket_name, source_blob_name) ==
    IF Exists(fs, BlobPath(bucket_name, source_blob_name))
    THEN [ok |-> TRUE, job |-> fs[BlobPath(bucket_name, source_blob_name)]]
    ELSE [ok |-> TRUE, job |-> [kind |-> "none", features |-> <<>>]]

\* fs.open(bucket_name + "/" + source_blob_name, "rb"); joblib.load(handle)
get_trained_model_from_gcs(fs, bucket_name, source_blob_name) ==
    IF Exists(fs, BlobPath(bucket_name, source_blob_name))
    THEN [ok |-> TRUE, job |-> fs[BlobPath(bucket_name, source_blob_name)]]
    ELSE Raise("FileNotFoundError")

\* entry of upload_trained_model_to_gcs(trained_model, ..., source_blob_name)
UploadCall(w, trained_model, source_blob_name) ==
    saving' = (w :> [model |-> trained_model, name |-> source_blob_name,
                     step |-> "rename"]) @@ saving

\* try: fs.rename(key, f"{now}-{key}")  except: pass
UploadRename(w) ==
    /\ w \in DOMAIN saving
    /\ saving[w].step = "rename"
    /\ LET src == BlobPath(bucket, saving[w].name)
       IN  blobs' = IF Exists(blobs, src)
                    THEN Rename(blobs, src, BackupPath(bucket, now, saving[w].name))
                    ELSE blobs
    /\ saving' = [saving EXCEPT ![w].step = "write"]
    /\ UNCHANGED <<sink, result, warehouse, call, frequency, data, pc, features, chained, horizon, now, saved,
                   forecast_model, devices, df_tmp, i, handed, preds, seedlen,
                   recomputed, forecasts>>

\* with fs.open(key, "wb") as handle: joblib.dump(trained_model, handle)
UploadWrite(w) ==
    /\ w \in DOMAIN saving
    /\ saving[w].step = "write"
    /\ blobs' = Put(blobs, BlobPath(bucket, saving[w].name), saving[w].model)
    /\ saved' = Append(saved, saving[w].model)
    /\ saving' = [x \in (DOMAIN saving) \ {w} |-> saving[x]]
    /\ UNCHANGED <<sink, result, warehouse, call, frequency, data, pc, features, chained, horizon, now,
                   forecast_model, devices, df_tmp, i, handed, preds, seedlen,
                   recomputed, forecasts>>

\* the process running upload_trained_model_to_gcs is stopped after the
\* rename and before the write; it takes no further step
UploadCrash(w) ==
    /\ w \in DOMAIN saving
    /\ saving[w].step = "write"
    /\ saving' = [saving EXCEPT ![w].step = "crashed"]
    /\ UNCHANGED <<sink, result, warehouse, call, frequency, data, pc, features, chained, horizon, blobs, now,
                   saved, forecast_model, devices, df_tmp, i, handed, preds,
                   seedlen, recomputed, forecasts>>

----------------------------------------------------------------------------
(* ForecastUtils.train_and_save_forecast_models: the fitted column list and *)
(* the upload of the fitted model                                           *)

\* a training run that saves under the key without the file suffix
TrainModelOtherKey ==
    /\ pc = "featured"
    /\ Idle
    /\ \E kind \in ModelKinds :
           UploadCall("w1", [kind |-> kind, features |-> TrainFeatures(features.cols)],
                      frequency \o "_forecast_model")
    /\ pc' = "training"
    /\ UNCHANGED <<sink, result, warehouse, call, frequency, data, features, chained, horizon, blobs, now, saved,
                   forecast_model, devices, df_tmp, i, handed, preds, seedlen,
                   recomputed, forecasts>>

TrainModel ==
    /\ pc = "featured"
    /\ Idle
    /\ \E kind \in ModelKinds :
           UploadCall("w1", [kind |-> kind, features |-> TrainFeatures(features.cols)],
                      ModelKey(frequency))
    /\ pc' = "training"
    /\ UNCHANGED <<sink, result, warehouse, call, frequency, data, features, chained, horizon, blobs, now, saved,
                   forecast_model, devices, df_tmp, i, handed, preds, seedlen,
                   recomputed, forecasts>>

----------------------------------------------------------------------------
(* ForecastUtils.train_and_save_forecast_models: the split by month *)

\* day index (days since 2023-01-01) of the first day of the months of 2023
\* and of 2024
MonthStarts ==
    <<0, 31, 59, 90, 120, 151, 181, 212, 243, 273, 304, 334,
      365, 396, 425, 456, 486, 517, 547, 578, 609, 639, 670, 700>>

\* timestamp.dt.month: the month of the year, 1..12, whatever the year
Month(ts) ==
    LET begun == {k \in 1..Len(MonthStarts) : MonthStarts[k] <= DayIndex(ts)}
    IN  ((Cardinality(begun) - 1) % 12) + 1

\* the month values of a device in ascending order
MonthsSorted(device_df) ==
    LET seen == {Month(device_df.rows[r]["timestamp"]) : r \in 1..NRows(device_df)}
    IN  SelectSeq([m \in 1..12 |-> m], LAMBDA m : m \in seen)

\* device_df["timestamp"].dt.month.unique(): first-seen order
MonthsOf(device_df) ==
    Unique([r \in 1..NRows(device_df) |-> Month(device_df.rows[r]["timestamp"])])

\* device_df[device_df["timestamp"].dt.month.isin(months)]
InMonths(device_df, months) ==
    [device_df EXCEPT !.rows =
        SelectSeq(@, LAMBDA row : \E k \in 1..Len(months) : months[k] = Month(row["timestamp"]))]

\* months[a:b] for 0 <= a <= b
Slice(seq, a, b) == SubSeq(seq, a + 1, IF b < Len(seq) THEN b ELSE Len(seq))

RECURSIVE SplitOverShared(_, _, _)
\* a split that takes the month list of the whole table for every device
SplitOverShared(training_data, device_ids, n) ==
    IF n = 0
    THEN [train_data |-> EmptyTable, validation_data |-> EmptyTable,
          test_data |-> EmptyTable]
    ELSE LET sofar == SplitOverShared(training_data, device_ids, n - 1)
             device_df == RowsOf(training_data, device_ids[n])
             months == MonthsOf(training_data)
         IN  [train_data |->
                  Concat(sofar.train_data, InMonths(device_df, Slice(months, 0, 8))),
              validation_data |->
                  Concat(sofar.validation_data, InMonths(device_df, Slice(months, 8, 9))),
              test_data |->
                  Concat(sofar.test_data,
                         InMonths(device_df, Slice(months, 9, Len(months))))]

RECURSIVE SplitOver(_, _, _)
\* the loop over training_data["device_id"].unique(), devices[1..n] done
SplitOver(training_data, device_ids, n) ==
    IF n = 0
    THEN [train_data |-> EmptyTable, validation_data |-> EmptyTable,
          test_data |-> EmptyTable]
    ELSE LET sofar == SplitOver(training_data, device_ids, n - 1)
             device_df == RowsOf(training_data, device_ids[n])
             months == MonthsOf(device_df)
             train_months == Slice(months, 0, 8)
             val_months == Slice(months, 8, 9)
             test_months == Slice(months, 9, Len(months))
         IN  [train_data |-> Concat(sofar.train_data, InMonths(device_df, train_months)),
              validation_data |->
                  Concat(sofar.validation_data, InMonths(device_df, val_months)),
              test_data |-> Concat(sofar.test_data, InMonths(device_df, test_months))]

\* lines 253-267
Split(training_data) ==
    LET device_ids == IF NRows(training_data) = 0 THEN <<>>
                      ELSE Unique(Column(training_data, "device_id"))
    IN  SplitOver(training_data, device_ids, Len(device_ids))

\* lines 243-277 go through: the columns they index exist, and the loop
\* over the devices ran at least once, so that the three parts have the
\* columns that are dropped and the target column
Splittable(training_data) ==
    /\ HasColumn(training_data, "device_id")
    /\ HasColumn(training_data, "timestamp")
    /\ HasColumn(training_data, "pm2_5")
    /\ NRows(training_data) > 0

SplitTrainingData ==
    /\ pc = "raw"
    /\ Splittable(data)
    /\ result' = [ok |-> TRUE, df |-> EmptyTable, parts |-> Split(data)]
    /\ pc' = "split"
    /\ UNCHANGED <<warehouse, call, frequency, data, features, chained, horizon, blobs, now, saving,
                   saved, forecast_model, devices, df_tmp, i, handed, preds, seedlen,
                   recomputed, forecasts, sink>>

----------------------------------------------------------------------------
(* ForecastUtils.generate_forecasts *)

\* lines 440-552: load the model; the horizon is the configured one
GenerateForecasts ==
    /\ pc \in {"featured", "training"}
    /\ Idle
    /\ LET res == get_trained_model_from_gcs(blobs, bucket, ModelKey(frequency))
       IN  IF res.ok
           THEN /\ forecast_model' = res.job
                /\ chained' \in ChainedModes
                /\ horizon' \in 1..MaxHorizon
                /\ devices' = Unique(Column(features, "device_id"))
                /\ pc' = "devices"
           ELSE /\ pc' = "failed"
                /\ UNCHANGED <<sink, result, forecast_model, chained, horizon, devices>>
    /\ forecasts' = EmptyTable
    /\ UNCHANGED <<sink, result, warehouse, call, frequency, data, features, blobs, now, saving, saved, df_tmp, i,
                   handed, preds, seedlen, recomputed>>

\* lines 558-570: test_copy = df_tmp[df_tmp["device_id"] == device]
GetForecastsCall ==
    /\ pc = "devices"
    /\ devices # <<>>
    /\ df_tmp' = RowsOf(features, Head(devices))
    /\ seedlen' = NRows(df_tmp')
    /\ i' = 0
    /\ preds' = <<>>
    /\ pc' = "loop"
    /\ UNCHANGED <<sink, result, warehouse, call, frequency, data, features, chained, horizon, blobs, now, saving,
                   saved, forecast_model, devices, handed, recomputed, forecasts>>

\* lines 453-545: one pass of "for i in range(int(horizon))"
ForecastIteration ==
    /\ pc = "loop"
    /\ i < horizon
    /\ LET scaffold == Scaffold(df_tmp, frequency, chained)
           row == HandedRow(scaffold)
           pm2_5 == Predict(forecast_model, row.cols, row.values, frequency)
       IN  /\ handed' = row
           /\ df_tmp' = SetLast(scaffold, "pm2_5", pm2_5)
           /\ preds' = Append(preds, pm2_5)
    /\ recomputed' = LoopLagNames(frequency) \o LoopRollNames(frequency)
    /\ i' = i + 1
    /\ UNCHANGED <<sink, result, warehouse, call, frequency, data, pc, features, chained, horizon, blobs, now,
                   saving, saved, forecast_model, devices, seedlen, forecasts>>

\* lines 547, 572: return df_tmp.iloc[-int(horizon):, :]; concat
GetForecastsReturn ==
    /\ pc = "loop"
    /\ i = horizon
    /\ forecasts' = Concat(forecasts, TailRows(df_tmp, horizon))
    /\ devices' = Tail(devices)
    /\ pc' = "devices"
    /\ UNCHANGED <<sink, result, warehouse, call, frequency, data, features, chained, horizon, blobs, now, saving,
                   saved, forecast_model, df_tmp, i, handed, preds, seedlen,
                   recomputed>>

\* lines 574-586: pm2_5 as float, the four output columns
ReturnForecasts ==
    /\ pc = "devices"
    /\ devices = <<>>
    /\ forecasts' = Project(forecasts, OutputColumns)
    /\ pc' = "done"
    /\ UNCHANGED <<sink, result, warehouse, call, frequency, data, features, chained, horizon, blobs, now, saving,
                   saved, forecast_model, devices, df_tmp, i, handed, preds, seedlen,
                   recomputed>>

----------------------------------------------------------------------------
(* ForecastUtils.generate_forecasts as a function of its arguments and of   *)
(* the pandas build (mode)                                                  *)

RECURSIVE Iterations(_, _, _, _, _)
\* df_tmp after n passes of "for i in range(int(horizon))"
Iterations(df, model, freq, mode, n) ==
    IF n = 0 THEN df
    ELSE LET scaffold == Scaffold(Iterations(df, model, freq, mode, n - 1), freq, mode)
             row == HandedRow(scaffold)
         IN  SetLast(scaffold, "pm2_5", Predict(model, row.cols, row.values, freq))

\* lines 446-547
get_forecasts(df, model, freq, h, mode) ==
    TailRows(Iterations(df, model, freq, mode, h), h)

RECURSIVE ForecastsOver(_, _, _, _, _, _, _)
\* lines 557-572: the device loop, device_ids[1..n] done
ForecastsOver(df, device_ids, n, model, freq, h, mode) ==
    IF n = 0 THEN EmptyTable
    ELSE Concat(ForecastsOver(df, device_ids, n - 1, model, freq, h, mode),
                get_forecasts(RowsOf(df, device_ids[n]), model, freq, h, mode))

\* lines 548-586, the model loaded
generate_forecasts(df, model, freq, h, mode) ==
    LET device_ids == IF NRows(df) = 0 THEN <<>> ELSE Unique(Column(df, "device_id"))
    IN  Project(ForecastsOver(df, device_ids, Len(device_ids), model, freq, h, mode),
                OutputColumns)

\* the scheduler starts the forecast task again on the same input, at a later
\* clock reading and with the registry as it is; what the finished run
\* returned is kept in result
RunAgain ==
    /\ pc = "done"
    /\ result = NoResult
    /\ now < MaxClock
    /\ result' = [ok |-> TRUE, df |-> forecasts, model |-> forecast_model,
                  horizon |-> horizon, mode |-> chained]
    /\ now' = now + 1
    /\ pc' = "training"
    /\ UNCHANGED <<sink, warehouse, call, frequency, data, features, chained, horizon,
                   blobs, saving, saved, forecast_model, devices, df_tmp, i, handed,
                   preds, seedlen, recomputed, forecasts>>

----------------------------------------------------------------------------
(* BaseMlUtils.preprocess_data.  Here a pm2_5 cell (and a latitude or       *)
(* longitude cell) is NaN or an exact rational <<n, d>> in lowest terms; a  *)
(* raw timestamp cell is <<"iso", h>>, a string that parses to hour h, or   *)
(* <<"bad">>, a string that does not parse; the datetime it parses to is   *)
(* <<"datetime", h>>.                                                      *)

additional_columns == <<"site_id">>

RECURSIVE Gcd(_, _)
Gcd(a, b) == IF b = 0 THEN a ELSE Gcd(b, a % b)

Rat(n, d) == <<n \div Gcd(n, d), d \div Gcd(n, d)>>

\* the point between a and b that is w2 steps after a and w1 steps before b
Lerp(a, b, w1, w2) ==
    Rat(a[1] * b[2] * w1 + b[1] * a[2] * w2, a[2] * b[2] * (w1 + w2))

RECURSIVE SumTo(_, _)
SumTo(cells, n) ==
    IF n = 0 THEN <<0, 1>>
    ELSE LET t == SumTo(cells, n - 1)
         IN  Rat(t[1] * cells[n][2] + cells[n][1] * t[2], t[2] * cells[n][2])

\* .mean() of the cells that are not NaN, NaN when there is none
MeanOf(cells) ==
    LET valid == SelectSeq(cells, LAMBDA c : c # NaN)
    IN  IF valid = <<>> THEN NaN
        ELSE Rat(SumTo(valid, Len(valid))[1], SumTo(valid, Len(valid))[2] * Len(valid))

\* x.interpolate(method="linear", limit_direction="both"): a cell between two
\* valid cells gets the point on the line through them (rows equally
\* spaced); a cell before the first valid cell gets the first valid value, a
\* cell after the last valid cell gets the last valid value
interpolate(x) ==
    [p \in 1..Len(x) |->
        LET before == {q \in 1..(p - 1) : x[q] # NaN}
            after == {q \in (p + 1)..Len(x) : x[q] # NaN}
        IN  IF x[p] # NaN THEN x[p]
            ELSE IF before = {} /\ after = {} THEN NaN
            ELSE IF before = {} THEN x[CHOOSE q \in after : \A o \in after : q <= o]
            ELSE IF after = {} THEN x[CHOOSE q \in before : \A o \in before : o <= q]
            ELSE LET pa == CHOOSE q \in before : \A o \in before : o <= q
                     pb == CHOOSE q \in after : \A o \in after : q <= o
                 IN  Lerp(x[pa], x[pb], pb - p, p - pa)]

\* the values of the group columns of a row
GroupKey(row, group_columns) == [k \in 1..Len(group_columns) |-> row[group_columns[k]]]

\* data.groupby(group_columns)["pm2_5"].transform(lambda x: x.interpolate(...))
InterpolateGroups(df, group_columns) ==
    LET member(r) == {q \in 1..NRows(df) :
                        GroupKey(df.rows[q], group_columns) = GroupKey(df.rows[r], group_columns)}
        nth(S, n) == CHOOSE x \in S : Cardinality({y \in S : y <= x}) = n
        filled(r) == interpolate([n \in 1..Cardinality(member(r)) |->
                                    df.rows[nth(member(r), n)]["pm2_5"]])
    IN  [df EXCEPT !.rows =
            AsSeq([r \in 1..NRows(df) |->
                [@[r] EXCEPT !["pm2_5"] =
                    filled(r)[Cardinality({q \in member(r) : q <= r})]]])]

\* sort order of the group keys
KeyRank(v) ==
    CASE v = "d1" -> 1 [] v = "d2" -> 2 [] v = "s1" -> 1 [] v = "s2" -> 2

KeyBefore(a, b) ==
    \E k \in 1..Len(a) :
        /\ KeyRank(a[k]) < KeyRank(b[k])
        /\ \A j \in 1..(k - 1) : a[j] = b[j]

RECURSIVE SortKeys(_)
SortKeys(keys) ==
    IF keys = {} THEN <<>>
    ELSE LET least == CHOOSE a \in keys : \A b \in keys \ {a} : KeyBefore(a, b)
         IN  <<least>> \o SortKeys(keys \ {least})

NumericColumns == {"pm2_5", "latitude", "longitude"}

\* data.groupby(group_columns).resample("D", on="timestamp")
\*     .mean(numeric_only=True), then reset_index: per group, in key order,
\* one row for every day from the group's first to its last, stamped at
\* midnight, holding the means of the numeric columns over the day's rows
ResampleDaily(df, group_columns) ==
    LET keys == {GroupKey(df.rows[r], group_columns) : r \in 1..NRows(df)}
        order == SortKeys(keys)
        numeric == SelectSeq(df.cols, LAMBDA c : c \in NumericColumns)
        cols == group_columns \o <<"timestamp">> \o numeric
        of(key) == SelectSeq(df.rows, LAMBDA row : GroupKey(row, group_columns) = key)
        days(key) == {DayIndex(of(key)[r]["timestamp"][2]) : r \in 1..Len(of(key))}
        first(key) == CHOOSE d \in days(key) : \A e \in days(key) : d <= e
        final(key) == CHOOSE d \in days(key) : \A e \in days(key) : e <= d
        row(key, d) ==
            LET on == SelectSeq(of(key), LAMBDA r : DayIndex(r["timestamp"][2]) = d)
            IN  [c \in {cols[k] : k \in 1..Len(cols)} |->
                    IF c = "timestamp" THEN <<"datetime", d * 24>>
                    ELSE IF \E k \in 1..Len(group_columns) : group_columns[k] = c
                    THEN key[IndexOf(group_columns, c)]
                    ELSE MeanOf([n \in 1..Len(on) |-> on[n][c]])]
        block(key) == [n \in 1..(final(key) - first(key) + 1) |-> row(key, first(key) + n - 1)]
        RECURSIVE blocks(_)
        blocks(n) == IF n = 0 THEN <<>> ELSE blocks(n - 1) \o block(order[n])
    IN  [cols |-> cols, rows |-> blocks(Len(order))]

\* data.dropna(subset=["pm2_5"])
DropNa(df) == [df EXCEPT !.rows = SelectSeq(@, LAMBDA row : row["pm2_5"] # NaN)]

\* pd.to_datetime(data["timestamp"])
ToDatetime(df) ==
    IF ~HasColumn(df, "timestamp") THEN df
    ELSE [df EXCEPT !.rows = AsSeq([r \in 1..NRows(df) |->
            [@[r] EXCEPT !["timestamp"] = <<"datetime", @[2]>>]])]

Parses(df) == \A r \in 1..NRows(df) : df.rows[r]["timestamp"][1] = "iso"

\* preprocess_data with the column check made after the timestamp assignment
preprocess_data_late_check(df, data_frequency, job_type) ==
    [out |-> Raise("Provided dataframe missing necessary columns"),
     data |-> IF HasColumn(df, "timestamp") /\ Parses(df) THEN ToDatetime(df) ELSE df]

\* preprocess_data(data, data_frequency, job_type): what it returns or
\* raises, and what the caller's table is afterwards (the timestamp and
\* pm2_5 assignments are made on the caller's table)
preprocess_data(df, data_frequency, job_type) ==
    LET group_columns == IF job_type = "prediction"
                         THEN <<"device_id">> \o additional_columns
                         ELSE <<"device_id">>
        parsed == ToDatetime(df)
        filled == InterpolateGroups(parsed, group_columns)
    IN  IF \E c \in {"device_id", "pm2_5", "timestamp"} : ~HasColumn(df, c)
        THEN [out |-> Raise("Provided dataframe missing necessary columns"), data |-> df]
        ELSE IF ~Parses(df)
        THEN [out |-> Raise("datetime conversion error"), data |-> df]
        ELSE IF \E k \in 1..Len(group_columns) : ~HasColumn(df, group_columns[k])
        THEN [out |-> Raise("KeyError"), data |-> parsed]
        ELSE IF data_frequency = "daily"
        THEN [out |-> Return(DropNa(InterpolateGroups(
                          ResampleDaily(filled, group_columns), group_columns))),
              data |-> filled]
        ELSE [out |-> Return(DropNa(InterpolateGroups(filled, group_columns))),
              data |-> InterpolateGroups(filled, group_columns)]

\* the preprocess task of a job: the caller hands over the table it fetched
PreprocessData ==
    /\ pc = "fetched"
    /\ LET res == preprocess_data(data, frequency, job)
       IN  /\ result' = res.out
           /\ data' = res.data
           /\ pc' = IF res.out.ok THEN "preprocessed" ELSE "failed"
    /\ UNCHANGED <<sink, warehouse, call, frequency, features, chained, horizon, blobs, now, saving,
                   saved, forecast_model, devices, df_tmp, i, handed, preds, seedlen,
                   recomputed, forecasts>>

----------------------------------------------------------------------------
(* ForecastUtils.save_forecasts_to_mongo *)

\* data[data["device_id"] == i][c].tolist()
ListOf(df, device, c) == Column(RowsOf(df, device), c)

\* the doc built for device i: site_id is the first site of the device's rows
DocOf(df, device, created_at) ==
    [device_id |-> device,
     created_at |-> created_at,
     site_id |-> Unique(ListOf(df, device, "site_id"))[1],
     pm2_5 |-> ListOf(df, device, "pm2_5"),
     timestamp |-> ListOf(df, device, "timestamp")]

\* forecast_results: one doc per value of data["device_id"].unique()
BuildRecords(df, created_at) ==
    LET device_ids == IF NRows(df) = 0 THEN <<>> ELSE Unique(Column(df, "device_id"))
    IN  [k \in 1..Len(device_ids) |-> DocOf(df, device_ids[k], created_at)]

KeyOf(doc) == <<doc.device_id, doc.site_id>>

Matches(coll, doc) == {k \in 1..Len(coll) : KeyOf(coll[k]) = KeyOf(doc)}

\* the documents of the collection that have the key of doc
DocsOf(coll, doc) == {coll[k] : k \in Matches(coll, doc)}

\* insert instead of upsert: collection.insert_one(doc)
insert_one(coll, doc) == Append(coll, doc)

\* collection.update_one(filter_query, {"$set": ...}, upsert=True): the first
\* document matching the filter gets the three fields; without a match a
\* document made of the filter fields and the three fields is inserted
update_one(coll, doc) ==
    IF Matches(coll, doc) = {}
    THEN Append(coll, doc)
    ELSE LET k == CHOOSE m \in Matches(coll, doc) : \A n \in Matches(coll, doc) : m <= n
         IN  [coll EXCEPT ![k] = [@ EXCEPT !.pm2_5 = doc.pm2_5,
                                           !.timestamp = doc.timestamp,
                                           !.created_at = doc.created_at]]

\* lines 590-609: build the docs, then choose the collection by frequency
SaveForecastsToMongo ==
    /\ pc = "done"
    /\ IF frequency \in {"hourly", "daily"}
       THEN /\ forecast_results' = BuildRecords(forecasts, now)
            /\ written' = <<>>
            /\ pc' = "writing"
            /\ result' = result
       ELSE /\ result' = Raise("Invalid frequency argument")
            /\ pc' = "failed"
            /\ UNCHANGED <<forecast_results, written>>
    /\ UNCHANGED <<warehouse, call, frequency, data, features, chained, horizon, blobs, now, saving,
                   saved, forecast_model, devices, df_tmp, i, handed, preds, seedlen,
                   recomputed, forecasts, collection, last>>

\* lines 611-624: one pass of "for doc in forecast_results", update_one returns
WriteRecord ==
    /\ pc = "writing"
    /\ forecast_results # <<>>
    /\ LET doc == Head(forecast_results)
       IN  /\ collection' = update_one(collection, doc)
           /\ written' = Append(written, [doc |-> doc, ok |-> TRUE,
                                          prior |-> DocsOf(collection, doc)])
           /\ last' = (KeyOf(doc) :> [doc |-> doc, ok |-> TRUE]) @@ last
    /\ forecast_results' = Tail(forecast_results)
    /\ UNCHANGED <<warehouse, call, frequency, data, pc, features, chained, horizon, blobs, now,
                   saving, saved, forecast_model, devices, df_tmp, i, handed, preds,
                   seedlen, recomputed, forecasts, result>>

\* a failed update_one that is not caught: the exception leaves the loop and
\* save_forecasts_to_mongo
WriteRecordAborts ==
    /\ pc = "writing"
    /\ forecast_results # <<>>
    /\ pc' = "failed"
    /\ result' = Raise("PyMongoError")
    /\ UNCHANGED <<warehouse, call, frequency, data, features, chained, horizon, blobs, now, saving,
                   saved, forecast_model, devices, df_tmp, i, handed, preds, seedlen,
                   recomputed, forecasts, sink>>

\* lines 611-628: one pass in which update_one raises; the except clause
\* prints and the loop goes on
WriteRecordFails ==
    /\ pc = "writing"
    /\ forecast_results # <<>>
    /\ LET doc == Head(forecast_results)
       IN  /\ written' = Append(written, [doc |-> doc, ok |-> FALSE,
                                          prior |-> DocsOf(collection, doc)])
           /\ last' = (KeyOf(doc) :> [doc |-> doc, ok |-> FALSE]) @@ last
    /\ forecast_results' = Tail(forecast_results)
    /\ UNCHANGED <<warehouse, call, frequency, data, pc, features, chained, horizon, blobs, now,
                   saving, saved, forecast_model, devices, df_tmp, i, handed, preds,
                   seedlen, recomputed, forecasts, collection, result>>

\* the loop is over: save_forecasts_to_mongo returns None
SaveForecastsReturn ==
    /\ pc = "writing"
    /\ forecast_results = <<>>
    /\ pc' = "saved"
    /\ UNCHANGED <<warehouse, call, frequency, data, features, chained, horizon, blobs, now, saving,
                   saved, forecast_model, devices, df_tmp, i, handed, preds, seedlen,
                   recomputed, forecasts, sink, result>>

\* save_<frequency>_forecasts_to_bigquery: the task that follows
\* make_<frequency>_forecasts next to the document-store task; it appends the
\* forecast rows to the warehouse table
SaveForecastsToBigQuery ==
    /\ pc \in {"done", "writing", "saved"}
    /\ ~stored
    /\ events' = events \o forecasts.rows
    /\ stored' = TRUE
    /\ UNCHANGED <<sink, result, call, frequency, data, pc, features, chained, horizon,
                   blobs, now, saving, saved, forecast_model, devices, df_tmp, i, handed,
                   preds, seedlen, recomputed, forecasts>>

----------------------------------------------------------------------------
(* Specification of the forecasting job: feature stages, a training run on *)
(* a table with the same columns, then generate_forecasts                  *)

Init ==
    /\ frequency \in Frequencies
    /\ \/ \E shape \in SeqsUpTo(Devices \X Values, MaxSeed) :
              data = MakeTable(shape, frequency)
       \/ \E d \in Devices :
              data = MakeTable(Append(PadShape(frequency), <<d, 1>>), frequency)
       \/ \E c \in Values :
              data = MakeTable(ConstShape(frequency, c), frequency)
    /\ InitRest

Next ==
    \/ GetLagAndRollFeatures
    \/ GetCyclicFeatures
    \/ GetLocationFeatures
    \/ TrainModel
    \/ UploadRename("w1")
    \/ UploadWrite("w1")
    \/ GenerateForecasts
    \/ GetForecastsCall
    \/ ForecastIteration
    \/ GetForecastsReturn
    \/ ReturnForecasts

Spec == Init /\ [][Next]_vars

----------------------------------------------------------------------------
(* Specification of the feature stage alone, on tables of up to MaxRows    *)
(* freely interleaved rows, with and without a long history before them    *)

InitFeatures ==
    /\ frequency \in Frequencies
    /\ \/ \E tail \in SeqsUpTo(Devices \X Values, MaxRows) :
              data = MakeTable(tail, frequency)
       \/ \E tail \in SeqsUpTo(Devices \X Values, MaxTail) :
              data = MakeTable(PadShape(frequency) \o tail, frequency)
    /\ InitRest

NextFeatures == GetLagAndRollFeatures

SpecFeatures == InitFeatures /\ [][NextFeatures]_vars

----------------------------------------------------------------------------
(* Specification of the registry alone: uploads to one key by one writer,  *)
(* loads, and a clock that may or may not advance between them             *)

Artifacts ==
    {[kind |-> k, features |-> TrainFeatures(c)] :
        k \in ModelKinds, c \in {RawColumns, <<"device_id", "timestamp", "pm2_5">>}}

Upload ==
    /\ pc = "registry"
    /\ Idle
    /\ Len(saved) < MaxSaves
    /\ \E trained_model \in Artifacts :
           UploadCall("w1", trained_model, ModelKey(frequency))
    /\ UNCHANGED <<sink, result, warehouse, call, frequency, data, pc, features, chained, horizon, blobs, now,
                   saved, forecast_model, devices, df_tmp, i, handed, preds,
                   seedlen, recomputed, forecasts>>

Load ==
    /\ pc = "registry"
    /\ LET res == get_trained_model_from_gcs(blobs, bucket, ModelKey(frequency))
       IN  forecast_model' = IF res.ok THEN res.job ELSE NoArtifact
    /\ UNCHANGED <<sink, result, warehouse, call, frequency, data, pc, features, chained, horizon, blobs, now,
                   saving, saved, devices, df_tmp, i, handed, preds, seedlen,
                   recomputed, forecasts>>

Tick ==
    /\ now < MaxClock
    /\ now' = now + 1
    /\ UNCHANGED <<sink, result, warehouse, call, frequency, data, pc, features, chained, horizon, blobs, saving,
                   saved, forecast_model, devices, df_tmp, i, handed, preds,
                   seedlen, recomputed, forecasts>>

InitRegistry ==
    /\ frequency \in Frequencies
    /\ data = EmptyTable
    /\ pc = "registry"
    /\ features = EmptyTable
    /\ chained = "undetermined"
    /\ horizon = 0
    /\ blobs = <<>>
    /\ now = 0
    /\ saving = <<>>
    /\ saved = <<>>
    /\ forecast_model = NoArtifact
    /\ devices = <<>>
    /\ df_tmp = EmptyTable
    /\ i = 0
    /\ handed = [cols |-> <<>>, values |-> <<>>]
    /\ preds = <<>>
    /\ seedlen = 0
    /\ recomputed = <<>>
    /\ forecasts = EmptyTable
    /\ collection = <<>>
    /\ forecast_results = <<>>
    /\ written = <<>>
    /\ last = <<>>
    /\ result = NoResult
    /\ job = "prediction"
    /\ source = EmptyTable
    /\ events = <<>>
    /\ stored = FALSE

NextRegistry ==
    \/ Upload
    \/ UploadRename("w1")
    \/ UploadWrite("w1")
    \/ UploadCrash("w1")
    \/ Load
    \/ Tick

SpecRegistry == InitRegistry /\ [][NextRegistry]_vars

----------------------------------------------------------------------------
(* Specification of the forecast sink alone: runs of                        *)
(* save_forecasts_to_mongo at successive clock readings, starting from an   *)
(* empty collection                                                         *)

\* shape: a sequence of <<device, site, pm2_5>>; row r is stamped r hours
SinkTable(shape) ==
    [cols |-> OutputColumns,
     rows |-> [r \in 1..Len(shape) |->
                 [device_id |-> shape[r][1], site_id |-> shape[r][2],
                  timestamp |-> r, pm2_5 |-> shape[r][3]]]]

\* the forecast tables handed to the sink: one device; one device with two
\* different payloads; two devices, in blocks and interleaved; a device that
\* reports through two sites, alone and next to another device
SinkShapes ==
    {<<<<"d1", "s1", 1>>>>,
     <<<<"d1", "s1", 2>>, <<"d1", "s1", 1>>>>,
     <<<<"d1", "s1", 1>>, <<"d2", "s2", 2>>>>,
     <<<<"d2", "s2", 1>>, <<"d1", "s1", 2>>, <<"d2", "s2", 2>>>>,
     <<<<"d1", "s1", 1>>, <<"d1", "s2", 2>>>>,
     <<<<"d1", "s2", 2>>, <<"d1", "s1", 1>>, <<"d2", "s2", 1>>>>}

SinkTables == {SinkTable(shape) : shape \in SinkShapes}

\* the next forecast job, at a later clock reading, hands its table to the sink
NewForecasts ==
    /\ pc = "saved"
    /\ now < MaxClock
    /\ now' = now + 1
    /\ forecasts' \in SinkTables
    /\ pc' = "done"
    /\ UNCHANGED <<warehouse, call, frequency, data, features, chained, horizon, blobs, saving,
                   saved, forecast_model, devices, df_tmp, i, handed, preds, seedlen,
                   recomputed, sink, result>>

InitSink ==
    /\ frequency \in Frequencies \cup {"weekly"}
    /\ data = EmptyTable
    /\ pc = "saved"
    /\ features = EmptyTable
    /\ chained = "undetermined"
    /\ horizon = 0
    /\ blobs = <<>>
    /\ now = 0
    /\ saving = <<>>
    /\ saved = <<>>
    /\ forecast_model = NoArtifact
    /\ devices = <<>>
    /\ df_tmp = EmptyTable
    /\ i = 0
    /\ handed = [cols |-> <<>>, values |-> <<>>]
    /\ preds = <<>>
    /\ seedlen = 0
    /\ recomputed = <<>>
    /\ forecasts = EmptyTable
    /\ collection = <<>>
    /\ forecast_results = <<>>
    /\ written = <<>>
    /\ last = <<>>
    /\ result = NoResult
    /\ job = "prediction"
    /\ source = EmptyTable
    /\ events = <<>>
    /\ stored = FALSE

NextSink ==
    \/ NewForecasts
    \/ SaveForecastsToMongo
    \/ WriteRecord
    \/ WriteRecordFails
    \/ SaveForecastsReturn

SpecSink == InitSink /\ [][NextSink]_vars

----------------------------------------------------------------------------
(* Specification of the training split alone: device d1 with 1..MaxMonths   *)
(* consecutive months of rows, in time order or reversed, starting in       *)
(* January or in November, next to a device d2 with up to two months        *)

TrainColumns == <<"device_id", "timestamp", "pm2_5">>

\* the rows of one device: month k of the run has 1 + (k % 2) rows, a day apart
MonthRows(device, first, n) ==
    LET stamp(k, j) == (MonthStarts[first + k - 1] + j) * 24
        one(k, j) == [device_id |-> device, timestamp |-> stamp(k, j), pm2_5 |-> 1 + (k % 2)]
        RECURSIVE upto(_)
        upto(k) == IF k = 0 THEN <<>>
                   ELSE upto(k - 1) \o (IF k % 2 = 1 THEN <<one(k, 0), one(k, 1)>>
                                        ELSE <<one(k, 0)>>)
    IN  upto(n)

Reverse(seq) == [k \in 1..Len(seq) |-> seq[Len(seq) + 1 - k]]

InitSplit ==
    /\ frequency \in Frequencies
    /\ \E first \in {1, 11}, n \in 1..MaxMonths, backwards \in BOOLEAN, m \in 0..2 :
           LET own == MonthRows("d1", first, n)
               other == MonthRows("d2", 1, m)
           IN  data = [cols |-> TrainColumns,
                       rows |-> (IF backwards THEN Reverse(own) ELSE own) \o other]
    /\ InitRest

NextSplit == SplitTrainingData

SpecSplit == InitSplit /\ [][NextSplit]_vars

----------------------------------------------------------------------------
(* Specification of the table checks alone: preprocess_data on fetched     *)
(* tables of up to MaxRaw rows with missing pm2_5 readings, with a column  *)
(* absent or with a timestamp that does not parse, there also for an       *)
(* unsupported frequency; and get_location_features on tables with and     *)
(* without its columns                                                     *)

\* hours of the fetched readings: two on the first day, none on the second
Stamps == <<0, 12, 60, 72, 130>>

RawValues == {NaN, <<1, 1>>, <<3, 1>>}

\* a device reporting through two sites, and a device reporting through one
RawKeys == {<<"d1", "s1">>, <<"d1", "s2">>, <<"d2", "s2">>}

WithoutColumn(cols, c) == SelectSeq(cols, LAMBDA x : x # c)

\* shape: a sequence of <<<<device, site>>, pm2_5>> pairs
FetchedTable(shape, cols, freq, parses) ==
    [cols |-> cols,
     rows |-> [r \in 1..Len(shape) |->
        [c \in {cols[k] : k \in 1..Len(cols)} |->
            CASE c = "device_id" -> shape[r][1][1]
              [] c = "site_id" -> shape[r][1][2]
              [] c = "timestamp" ->
                    IF ~parses /\ r = Len(shape) THEN <<"bad">>
                    ELSE <<"iso", IF freq = "daily" THEN Stamps[r] ELSE r - 1>>
              [] c = "pm2_5" -> shape[r][2]
              [] c = "latitude" -> <<LatOf(shape[r][1][1]), 1>>
              [] c = "longitude" -> <<LatOf(shape[r][1][1]), 1>>]]]

SchemaShape == <<<<<<"d1", "s1">>, <<1, 1>>>>, <<<<"d1", "s1">>, NaN>>, <<<<"d2", "s2">>, <<3, 1>>>>>>

InitPreprocess ==
    /\ job \in {"train", "prediction"}
    /\ \/ /\ pc = "fetched"
          /\ \/ /\ frequency \in Frequencies
                /\ \E shape \in SeqsUpTo(RawKeys \X RawValues, MaxRaw) :
                       data = FetchedTable(shape, RawColumns, frequency, TRUE)
             \/ /\ frequency \in Frequencies \cup {"weekly"}
                /\ \/ \E c \in {RawColumns[k] : k \in 1..Len(RawColumns)} \cup {"none"},
                         n \in 0..Len(SchemaShape) :
                          data = FetchedTable(SubSeq(SchemaShape, 1, n),
                                              WithoutColumn(RawColumns, c), frequency, TRUE)
                   \/ \E n \in 1..Len(SchemaShape) :
                          data = FetchedTable(SubSeq(SchemaShape, 1, n), RawColumns,
                                              frequency, FALSE)
          /\ features = EmptyTable
       \/ /\ pc = "cyclic"
          /\ frequency \in Frequencies
          /\ data = EmptyTable
          /\ \E c \in {RawColumns[k] : k \in 1..Len(RawColumns)} \cup {"none"},
                n \in 0..Len(SchemaShape) :
                    features = ToDatetime(FetchedTable(SubSeq(SchemaShape, 1, n),
                                   WithoutColumn(RawColumns, c), frequency, TRUE))
    /\ source = IF pc = "fetched" THEN data ELSE features
    /\ events = <<>>
    /\ stored = FALSE
    /\ result = NoResult
    /\ chained = "undetermined"
    /\ horizon = 0
    /\ blobs = <<>>
    /\ now = 0
    /\ saving = <<>>
    /\ saved = <<>>
    /\ forecast_model = NoArtifact
    /\ devices = <<>>
    /\ df_tmp = EmptyTable
    /\ i = 0
    /\ handed = [cols |-> <<>>, values |-> <<>>]
    /\ preds = <<>>
    /\ seedlen = 0
    /\ recomputed = <<>>
    /\ forecasts = EmptyTable
    /\ collection = <<>>
    /\ forecast_results = <<>>
    /\ written = <<>>
    /\ last = <<>>

NextPreprocess ==
    \/ PreprocessData
    \/ GetLocationFeatures

SpecPreprocess == InitPreprocess /\ [][NextPreprocess]_vars

----------------------------------------------------------------------------
(* Specification of one run of the forecast job against a registry and     *)
(* sinks with a past: the registry is empty or holds a backup of the model *)
(* or the model of the other frequency, the sinks are empty or hold the    *)
(* forecasts of an earlier run; the run may forecast before any model of   *)
(* its frequency is uploaded, or after                                     *)

RunShapes == {<<<<"d1", 1>>>>, <<<<"d1", 1>>, <<"d2", 2>>>>}

OtherFrequency(freq) == IF freq = "hourly" THEN "daily" ELSE "hourly"

OldArtifact == [kind |-> "old", features |-> <<>>]

\* bucket contents without the model of the frequency
RunRegistries(freq) ==
    {<<>>,
     Put(<<>>, BackupPath(bucket, 0, ModelKey(freq)), OldArtifact),
     Put(<<>>, BlobPath(bucket, ModelKey(OtherFrequency(freq))), OldArtifact)}

\* what an earlier run left in the document store and in the warehouse
PriorForecasts == SinkTable(<<<<"d1", "s1", 2>>>>)

InitRun ==
    /\ frequency \in Frequencies
    /\ \E shape \in RunShapes : data = MakeTable(shape, frequency)
    /\ pc = "raw"
    /\ blobs \in RunRegistries(frequency)
    /\ \/ collection = <<>> /\ events = <<>>
       \/ collection = BuildRecords(PriorForecasts, 0) /\ events = PriorForecasts.rows
    /\ now = 1
    /\ features = EmptyTable
    /\ chained = "undetermined"
    /\ horizon = 0
    /\ saving = <<>>
    /\ saved = <<>>
    /\ forecast_model = NoArtifact
    /\ devices = <<>>
    /\ df_tmp = EmptyTable
    /\ i = 0
    /\ handed = [cols |-> <<>>, values |-> <<>>]
    /\ preds = <<>>
    /\ seedlen = 0
    /\ recomputed = <<>>
    /\ forecasts = EmptyTable
    /\ forecast_results = <<>>
    /\ written = <<>>
    /\ last = <<>>
    /\ result = NoResult
    /\ job = "prediction"
    /\ source = EmptyTable
    /\ stored = FALSE

NextRun ==
    \/ GetLagAndRollFeatures
    \/ GetCyclicFeatures
    \/ GetLocationFeatures
    \/ TrainModel
    \/ UploadRename("w1")
    \/ UploadWrite("w1")
    \/ GenerateForecasts
    \/ GetForecastsCall
    \/ ForecastIteration
    \/ GetForecastsReturn
    \/ ReturnForecasts
    \/ SaveForecastsToBigQuery
    \/ SaveForecastsToMongo
    \/ WriteRecord
    \/ WriteRecordFails
    \/ SaveForecastsReturn

SpecRun == InitRun /\ [][NextRun]_vars

----------------------------------------------------------------------------
(* Specification of two forecast runs on one input: tables of two devices  *)
(* with interleaved rows, a model trained and uploaded, a forecast run,    *)
(* then a second forecast run on the same input                            *)

RepeatShapes ==
    {<<<<"d1", 1>>, <<"d2", 2>>>>,
     <<<<"d1", 1>>, <<"d2", 2>>, <<"d1", 2>>>>,
     <<<<"d2", 1>>, <<"d1", 2>>, <<"d2", 2>>>>}

InitRepeat ==
    /\ frequency \in Frequencies
    /\ \E shape \in RepeatShapes : data = MakeTable(shape, frequency)
    /\ InitRest

NextRepeat ==
    \/ GetLagAndRollFeatures
    \/ GetCyclicFeatures
    \/ GetLocationFeatures
    \/ TrainModel
    \/ UploadRename("w1")
    \/ UploadWrite("w1")
    \/ GenerateForecasts
    \/ GetForecastsCall
    \/ ForecastIteration
    \/ GetForecastsReturn
    \/ ReturnForecasts
    \/ RunAgain

SpecRepeat == InitRepeat /\ [][NextRepeat]_vars

\* the forecasting job, once, on the same tables
SpecInterleaved == InitRepeat /\ [][Next]_vars

----------------------------------------------------------------------------
(* ForecastUtils.train_and_save_forecast_models: the stages after the split *)

\* the values the objective draws with trial.suggest_*: floats in hundredths,
\* every range by its two ends, the leaf count also by 31
param_grid ==
    [colsample_bytree : {10, 100},
     reg_alpha : {0, 1000},
     reg_lambda : {0, 1000},
     n_estimators : {50},
     learning_rate : {1, 30},
     num_leaves : {20, 31, 50},
     max_depth : {4, 7}]

\* what LGBMRegressor takes for an argument that is not given
LGBMDefaults ==
    [colsample_bytree |-> 100, reg_alpha |-> 0, reg_lambda |-> 0,
     n_estimators |-> 100, learning_rate |-> 10, num_leaves |-> 31,
     max_depth |-> -1]

\* LGBMRegressor(**kwargs).get_params(), as far as the search goes
LGBMRegressor(kwargs) ==
    [name \in DOMAIN LGBMDefaults |->
        IF name \in DOMAIN kwargs THEN kwargs[name] ELSE LGBMDefaults[name]]

\* the keyword arguments of the final model that are read from best_params
RefitArguments ==
    {"n_estimators", "learning_rate", "colsample_bytree", "reg_alpha",
     "reg_lambda", "max_depth"}

\* clf = LGBMRegressor(n_estimators=best_params["n_estimators"], ...)
RefitParams(best_params) ==
    LGBMRegressor([name \in RefitArguments |-> best_params[name]])

\* fit, predict and mean_squared_error go through: there is a feature column
\* and each part has a row
Fittable(parts, columns) ==
    /\ TrainFeatures(columns) # <<>>
    /\ NRows(parts.train_data) > 0
    /\ NRows(parts.validation_data) > 0
    /\ NRows(parts.test_data) > 0

\* lines 243-277 raise KeyError
SplitRaises ==
    /\ pc = "raw"
    /\ ~Splittable(data)
    /\ pc' = "failed"
    /\ UNCHANGED <<sink, result, warehouse, call, frequency, data, features, chained,
                   horizon, blobs, now, saving, saved, forecast_model, devices, df_tmp,
                   i, handed, preds, seedlen, recomputed, forecasts>>

\* a search that stores the model of its best trial under the model key
HyperparameterSearchSaving ==
    /\ pc = "split"
    /\ Fittable(result.parts, data.cols)
    /\ \E best \in param_grid :
           /\ result' = [ok |-> TRUE, df |-> EmptyTable, parts |-> result.parts,
                         best_params |-> best]
           /\ blobs' = Put(blobs, BlobPath(bucket, ModelKey(frequency)),
                           [kind |-> "lag1", features |-> TrainFeatures(data.cols),
                            params |-> LGBMRegressor(best)])
    /\ pc' = "search"
    /\ UNCHANGED <<sink, warehouse, call, frequency, data, features, chained, horizon,
                   now, saving, saved, forecast_model, devices, df_tmp, i, handed,
                   preds, seedlen, recomputed, forecasts>>

\* lines 279-321: study.optimize(objective, n_trials=15); any trial may turn
\* out the best one
HyperparameterSearch ==
    /\ pc = "split"
    /\ Fittable(result.parts, data.cols)
    /\ \E best \in param_grid :
           result' = [ok |-> TRUE, df |-> EmptyTable, parts |-> result.parts,
                      best_params |-> best]
    /\ pc' = "search"
    /\ UNCHANGED <<sink, warehouse, call, frequency, data, features, chained, horizon,
                   blobs, now, saving, saved, forecast_model, devices, df_tmp, i,
                   handed, preds, seedlen, recomputed, forecasts>>

\* lines 279-321: a trial raises (fit, predict or the metric), and
\* study.optimize raises with it
SearchRaises ==
    /\ pc = "split"
    /\ pc' = "failed"
    /\ UNCHANGED <<sink, result, warehouse, call, frequency, data, features, chained,
                   horizon, blobs, now, saving, saved, forecast_model, devices, df_tmp,
                   i, handed, preds, seedlen, recomputed, forecasts>>

\* lines 323-349: the final model is built from best_params and fitted
RefitModel ==
    /\ pc = "search"
    /\ \E kind \in ModelKinds :
           result' = [ok |-> TRUE, df |-> EmptyTable, parts |-> result.parts,
                      best_params |-> result.best_params,
                      clf |-> [kind |-> kind, features |-> TrainFeatures(data.cols),
                               params |-> RefitParams(result.best_params)]]
    /\ pc' = "refit"
    /\ UNCHANGED <<sink, warehouse, call, frequency, data, features, chained, horizon,
                   blobs, now, saving, saved, forecast_model, devices, df_tmp, i,
                   handed, preds, seedlen, recomputed, forecasts>>

\* lines 323-349: the tracking server, best_params or the fit raises
RefitRaises ==
    /\ pc = "search"
    /\ pc' = "failed"
    /\ UNCHANGED <<sink, result, warehouse, call, frequency, data, features, chained,
                   horizon, blobs, now, saving, saved, forecast_model, devices, df_tmp,
                   i, handed, preds, seedlen, recomputed, forecasts>>

\* lines 351-353: GCSUtils.upload_trained_model_to_gcs(clf, ..., key) is entered
RegisterModel ==
    /\ pc = "refit"
    /\ Idle
    /\ UploadCall("w1", result.clf, ModelKey(frequency))
    /\ pc' = "uploading"
    /\ UNCHANGED <<sink, result, warehouse, call, frequency, data, features, chained,
                   horizon, blobs, now, saved, forecast_model, devices, df_tmp, i,
                   handed, preds, seedlen, recomputed, forecasts>>

\* the upload has returned, and train_and_save_forecast_models with it
TrainingReturns ==
    /\ pc = "uploading"
    /\ Idle
    /\ pc' = "registered"
    /\ UNCHANGED <<sink, result, warehouse, call, frequency, data, features, chained,
                   horizon, blobs, now, saving, saved, forecast_model, devices, df_tmp,
                   i, handed, preds, seedlen, recomputed, forecasts>>

----------------------------------------------------------------------------
(* Specification of a training run: tables of one or two devices with a     *)
(* lag column, over 1 to 13 months, or without rows, or without the device  *)
(* column; the registry is empty or holds a model of the frequency, with or *)
(* without a backup                                                         *)

FeatureColumn == "pm2_5_last_1_day"

\* the table with a feature column next to the three of TrainColumns
WithFeature(df) ==
    [cols |-> Append(df.cols, FeatureColumn),
     rows |-> [r \in 1..NRows(df) |-> (FeatureColumn :> 1) @@ df.rows[r]]]

TrainingSpans == {1, 8, 9, 10, 13}

TrainingTables ==
    {WithFeature([cols |-> TrainColumns,
                  rows |-> MonthRows("d1", 1, n) \o MonthRows("d2", 1, m)]) :
         n \in TrainingSpans, m \in {0, 2}}
    \cup {[cols |-> TrainColumns, rows |-> MonthRows("d1", 1, 10)],
          WithFeature([cols |-> TrainColumns, rows |-> <<>>]),
          [cols |-> <<"timestamp", "pm2_5", FeatureColumn>>, rows |-> <<>>]}

\* bucket contents before the run
TrainingRegistries(freq) ==
    {<<>>,
     Put(<<>>, BlobPath(bucket, ModelKey(freq)), OldArtifact),
     Put(Put(<<>>, BlobPath(bucket, ModelKey(freq)), OldArtifact),
         BackupPath(bucket, 0, ModelKey(freq)), NoArtifact)}

InitTraining ==
    /\ frequency \in Frequencies
    /\ data \in TrainingTables
    /\ pc = "raw"
    /\ blobs \in TrainingRegistries(frequency)
    /\ now = 1
    /\ features = EmptyTable
    /\ chained = "undetermined"
    /\ horizon = 0
    /\ saving = <<>>
    /\ saved = <<>>
    /\ forecast_model = NoArtifact
    /\ devices = <<>>
    /\ df_tmp = EmptyTable
    /\ i = 0
    /\ handed = [cols |-> <<>>, values |-> <<>>]
    /\ preds = <<>>
    /\ seedlen = 0
    /\ recomputed = <<>>
    /\ forecasts = EmptyTable
    /\ collection = <<>>
    /\ forecast_results = <<>>
    /\ written = <<>>
    /\ last = <<>>
    /\ result = NoResult
    /\ job = "train"
    /\ source = EmptyTable
    /\ events = <<>>
    /\ stored = FALSE

NextTraining ==
    \/ SplitTrainingData
    \/ SplitRaises
    \/ HyperparameterSearch
    \/ SearchRaises
    \/ RefitModel
    \/ RefitRaises
    \/ RegisterModel
    \/ UploadRename("w1")
    \/ UploadWrite("w1")
    \/ TrainingReturns

SpecTraining == InitTraining /\ [][NextTraining]_vars

----------------------------------------------------------------------------
(* Properties *)

Range(seq) == {seq[k] : k \in 1..Len(seq)}

DeviceIds(df) == {df.rows[r]["device_id"] : r \in 1..NRows(df)}

SetCell(df, r, c, v) == [df EXCEPT !.rows[r] = (c :> v) @@ @]

InLoop == pc = "loop" /\ i >= 1

\* C1: generate_forecasts returns exactly horizon rows for every device of
\* its input, horizon x devices rows in all, and each row has only the
\* columns device_id, site_id, timestamp, pm2_5.
C1_HorizonRowsPerDevice ==
    pc = "done" =>
        /\ \A d \in DeviceIds(features) :
               Cardinality({r \in 1..NRows(forecasts) :
                               forecasts.rows[r]["device_id"] = d}) = horizon
        /\ NRows(forecasts) = horizon * Cardinality(DeviceIds(features))
        /\ forecasts.cols = <<"device_id", "site_id", "timestamp", "pm2_5">>
        /\ \A r \in 1..NRows(forecasts) :
               DOMAIN forecasts.rows[r] = {"device_id", "site_id", "timestamp", "pm2_5"}

C1_Witness ==
    /\ pc = "done"
    /\ Cardinality(DeviceIds(features)) = 2
    /\ horizon >= 2
    /\ NRows(features) > 2

\* C2: for both frequencies the j-th forecast row of a device has the
\* timestamp of the device's last seed row plus j frequency units (1 hour,
\* 24 hours).
C2_ContiguousTimestamps ==
    pc = "done" =>
        \A d \in DeviceIds(features) :
            LET seed == RowsOf(features, d).rows
                own == RowsOf(forecasts, d).rows
            IN  \A j \in 1..Len(own) :
                    own[j]["timestamp"] = seed[Len(seed)]["timestamp"]
                        + j * (IF frequency = "daily" THEN 24 ELSE 1)

\* C3: at iteration i the lag-k feature given to the model is the target k
\* rows above the new row in the extended series: the prediction written
\* at iteration i - k when k < i, else the seed observation k - i rows
\* before the last seed row (missing when the seed is shorter than that).
C3_LagsFromExtendedSeries ==
    InLoop =>
        \A x \in 1..Len(shifts1(frequency)) :
            LET k == shifts1(frequency)[x]
                seed == RowsOf(features, Head(devices)).rows
                cell == handed.values[IndexOf(handed.cols, LagName(k, frequency))]
            IN  cell = IF k < i THEN Num(preds[i - k])
                       ELSE IF k - i < Len(seed)
                            THEN Num(seed[Len(seed) - (k - i)]["pm2_5"])
                            ELSE NaN

C3_Witness ==
    /\ InLoop
    /\ i = 3
    /\ forecast_model.kind = "inc"
    /\ seedlen >= 12
    /\ preds[1] # preds[2]

\* C4: a row's rolling features do not depend on the row's own target:
\* with the row's pm2_5 replaced by another value and everything else
\* kept, get_lag_and_roll_features gives the row the same rolling cells,
\* each the aggregate of the one-step-lookback (lag-1) cells of the window
\* of s rows ending at the row; and so does the forecast loop for the row
\* it appends, whose rolling cells are the aggregates of the s targets
\* directly above it.
C4_NoSelfLeakage ==
    /\ pc = "lagged" =>
           /\ \A r \in 1..NRows(data) : \A v \in Values \cup {0} :
                  LET alt == RollSeries(SetCell(data, r, "pm2_5", v), "pm2_5", frequency)
                  IN  \A k \in 1..Len(RollNames(frequency)) :
                          alt[k][r] = features.rows[r][RollNames(frequency)[k]]
           /\ \A r \in 1..NRows(data) : \A k \in 1..Len(RollNames(frequency)) :
                  LET f == RollPairs(frequency)[k][1]
                      s == RollPairs(frequency)[k][2]
                      lookback == [q \in 1..NRows(data) |->
                                      features.rows[q][LagName(1, frequency)]]
                  IN  features.rows[r][RollNames(frequency)[k]] =
                          IF r >= s /\ \A q \in (r - s + 1)..r : lookback[q] # NaN
                          THEN Agg(f, [x \in 1..s |-> lookback[r - s + x][1]])
                          ELSE NaN
    /\ InLoop =>
           LET n == NRows(df_tmp)
               names == LoopRollNames(frequency)
               pairs == LoopRollPairs(frequency)
           IN  /\ \A v \in {0, LastRow(df_tmp)["pm2_5"] + 1} :
                      LET alt == LoopRollSeries(SetLast(df_tmp, "pm2_5", v), frequency)
                      IN  \A k \in 1..Len(names) : alt[k][n] = LastRow(df_tmp)[names[k]]
               /\ \A k \in 1..Len(names) :
                      LastRow(df_tmp)[names[k]] =
                          IF n - 1 >= pairs[k][2]
                          THEN Agg(pairs[k][1],
                                   [q \in 1..pairs[k][2] |->
                                       df_tmp.rows[n - 1 - pairs[k][2] + q]["pm2_5"]])
                          ELSE NaN

C4_Witness ==
    /\ InLoop
    /\ frequency = "hourly"
    /\ LastRow(df_tmp)["pm2_5_skew_24_hour"] # NaN
    /\ LastRow(df_tmp)["pm2_5_std_3_hour"][1] # 0

\* C5: every lag and rolling feature get_lag_and_roll_features gives a row
\* is derived only from rows of the same device with an earlier timestamp:
\* replacing the target of a row of another device, or of a row that is
\* not earlier, changes none of them.
C5_OnlyOwnEarlierRows ==
    pc = "lagged" =>
        \A q \in 1..NRows(data) : \A v \in Values :
            LET alt == SetCell(data, q, "pm2_5", v)
                lags == LagSeries(alt, "pm2_5", frequency)
                rolls == RollSeries(alt, "pm2_5", frequency)
            IN  \A r \in 1..NRows(data) :
                    (\/ data.rows[q]["device_id"] # data.rows[r]["device_id"]
                     \/ data.rows[q]["timestamp"] >= data.rows[r]["timestamp"]) =>
                        /\ \A k \in 1..Len(LagNames(frequency)) :
                               lags[k][r] = features.rows[r][LagNames(frequency)[k]]
                        /\ \A k \in 1..Len(RollNames(frequency)) :
                               rolls[k][r] = features.rows[r][RollNames(frequency)[k]]

\* C6: for every device and every lag k, row t gets the target of the row
\* k positions earlier in the device's own series, and the missing marker
\* when the device has fewer than k earlier rows.
C6_LagIsKthEarlierOfDevice ==
    pc = "lagged" =>
        \A r \in 1..NRows(data) : \A x \in 1..Len(LagShifts(frequency)) :
            LET k == LagShifts(frequency)[x]
                d == data.rows[r]["device_id"]
                own == RowsOf(data, d).rows
                t == Cardinality({q \in 1..r : data.rows[q]["device_id"] = d})
            IN  features.rows[r][LagName(k, frequency)] =
                    IF t > k THEN Num(own[t - k]["pm2_5"]) ELSE NaN

C6_Witness ==
    /\ pc = "lagged"
    /\ \E r \in 3..NRows(data) :
           /\ data.rows[r - 1]["device_id"] # data.rows[r]["device_id"]
           /\ features.rows[r][LagName(2, frequency)] # NaN
           /\ features.rows[r][LagName(2, frequency)] # Num(data.rows[r - 2]["pm2_5"])
           /\ features.rows[r][LagName(LagShifts(frequency)[3], frequency)] = NaN

\* C7: the lag and rolling columns are fixed by the frequency alone: hourly
\* has lags 1, 2, 6, 12 and windows 3, 6, 12, 24 with mean, std, median,
\* skew; daily has lags 1, 2, 3, 7 and windows 2, 3, 7 with mean, std, max,
\* min; get_lag_and_roll_features writes exactly these columns and every
\* iteration of the forecast loop recomputes exactly these columns.
C7_VocabularyByFrequency ==
    LET names(unit, lags, windows, fns) ==
            {"pm2_5_last_" \o ToString(k) \o "_" \o unit : k \in lags}
            \cup {"pm2_5_" \o f \o "_" \o ToString(s) \o "_" \o unit :
                      f \in fns, s \in windows}
        expected ==
            IF frequency = "hourly"
            THEN names("hour", {1, 2, 6, 12}, {3, 6, 12, 24},
                       {"mean", "std", "median", "skew"})
            ELSE names("day", {1, 2, 3, 7}, {2, 3, 7},
                       {"mean", "std", "max", "min"})
    IN  /\ pc = "lagged" => Range(features.cols) \ Range(data.cols) = expected
        /\ InLoop => Range(recomputed) = expected

C7_Witness ==
    /\ InLoop
    /\ i = 2
    /\ frequency = "hourly"
    /\ Cardinality(Range(recomputed)) = 20
    /\ Range(recomputed) \subseteq Range(features.cols)

\* C8: with a model that returns the lag-1 feature of the row it is given
\* and a device whose seed targets all equal c, generate_forecasts returns
\* horizon rows for the device, all with pm2_5 = c, the hourly ones at
\* +1h, +2h, ... from the last seed timestamp.
C8_ConstantSeedStaysConstant ==
    (pc = "done" /\ forecast_model.kind = "lag1") =>
        \A d \in DeviceIds(features) : \A c \in Values :
            LET seed == RowsOf(features, d).rows
                own == RowsOf(forecasts, d).rows
            IN  (\A r \in 1..Len(seed) : seed[r]["pm2_5"] = c) =>
                    /\ Len(own) = horizon
                    /\ \A j \in 1..Len(own) :
                           /\ own[j]["pm2_5"] = c
                           /\ frequency = "hourly" =>
                                  own[j]["timestamp"] = seed[Len(seed)]["timestamp"] + j

C8_Witness ==
    /\ pc = "done"
    /\ forecast_model.kind = "lag1"
    /\ frequency = "hourly"
    /\ horizon = 3
    /\ NRows(features) = 24
    /\ \A r \in 1..NRows(features) : features.rows[r]["pm2_5"] = 2
    /\ NRows(forecasts) = 3
    /\ \A j \in 1..NRows(forecasts) : forecasts.rows[j]["pm2_5"] = 2

\* C9: the row handed to the model in the forecast loop has exactly the
\* columns the model was fitted on in train_and_save_forecast_models, in
\* the same order, the two jobs having tables with the same columns.
C9_PredictColumnsAreTrainColumns ==
    InLoop => handed.cols = forecast_model.features

C11_NoVersionLost ==
    (pc = "registry" /\ Idle /\ Len(saved) >= 1) =>
        LET active == BlobPath(bucket, ModelKey(frequency))
            backups == (DOMAIN blobs) \ {active}
        IN  /\ Exists(blobs, active)
            /\ blobs[active] = saved[Len(saved)]
            /\ Cardinality(backups) = Len(saved) - 1
            /\ \A k \in 1..(Len(saved) - 1) : \E b \in backups : blobs[b] = saved[k]

\* C12: when a save is stopped after the rename and before the write, the
\* active key holds nothing, a load of it fails with not-found, and the
\* artifact that was active before is stored unchanged under the backup
\* key made of the clock reading of the rename.
C12_CrashLeavesOnlyBackup ==
    (pc = "registry" /\ \E w \in DOMAIN saving : saving[w].step = "crashed") =>
        LET key == ModelKey(frequency)
            res == get_trained_model_from_gcs(blobs, bucket, key)
        IN  /\ ~Exists(blobs, BlobPath(bucket, key))
            /\ ~res.ok
            /\ res.error = "FileNotFoundError"
            /\ Len(saved) >= 1 =>
                   \E t \in 0..now :
                       /\ Exists(blobs, BackupPath(bucket, t, key))
                       /\ blobs[BackupPath(bucket, t, key)] = saved[Len(saved)]

C12_Witness ==
    /\ pc = "registry"
    /\ \E w \in DOMAIN saving : saving[w].step = "crashed"
    /\ Len(saved) = 2
    /\ saved[1] # saved[2]
    /\ Cardinality(DOMAIN blobs) = 2
    /\ now >= 1

\* C13: starting from an empty collection, after any sequence of runs of
\* save_forecasts_to_mongo there is at most one document per (device_id,
\* site_id) key, every key a run wrote has its document, and the pm2_5,
\* timestamp and created_at of the document are exactly those of the record
\* of the latest run that wrote the key (the latest write not being a
\* failed one): replaced, not appended to or merged.
C13_LastRunWins ==
    /\ \A x, y \in 1..Len(collection) :
           KeyOf(collection[x]) = KeyOf(collection[y]) => x = y
    /\ \A x \in 1..Len(collection) :
           /\ KeyOf(collection[x]) \in DOMAIN last
           /\ last[KeyOf(collection[x])].ok =>
                  /\ collection[x].pm2_5 = last[KeyOf(collection[x])].doc.pm2_5
                  /\ collection[x].timestamp = last[KeyOf(collection[x])].doc.timestamp
                  /\ collection[x].created_at = last[KeyOf(collection[x])].doc.created_at
    /\ \A k \in DOMAIN last :
           last[k].ok => \E x \in 1..Len(collection) : KeyOf(collection[x]) = k

C13_Witness ==
    /\ pc = "saved"
    /\ now = 2
    /\ Len(collection) = 2
    /\ \A k \in DOMAIN last : last[k].ok
    /\ KeyOf(collection[1]) = <<"d1", "s1">>
    /\ collection[1].created_at = 2
    /\ collection[1].pm2_5 = <<2, 1>>
    /\ collection[2].created_at = 1

\* C14: one run of save_forecasts_to_mongo builds one record for every
\* distinct (device_id, site_id) pair of the forecast table, each with the
\* timestamp and pm2_5 of exactly the rows of that pair, in table order.
C14_OneRecordPerPair ==
    (pc = "writing" /\ written = <<>>) =>
        LET rows == forecasts.rows
            pairs == {<<rows[r]["device_id"], rows[r]["site_id"]>> : r \in 1..Len(rows)}
            of(pair) == SelectSeq(rows, LAMBDA row :
                            <<row["device_id"], row["site_id"]>> = pair)
        IN  /\ Len(forecast_results) = Cardinality(pairs)
            /\ {KeyOf(forecast_results[k]) : k \in 1..Len(forecast_results)} = pairs
            /\ \A k \in 1..Len(forecast_results) :
                   LET own == of(KeyOf(forecast_results[k]))
                   IN  /\ forecast_results[k].pm2_5 =
                              [r \in 1..Len(own) |-> own[r]["pm2_5"]]
                       /\ forecast_results[k].timestamp =
                              [r \in 1..Len(own) |-> own[r]["timestamp"]]

\* C15: a failing write of one record is not raised to the caller of
\* save_forecasts_to_mongo; the run goes through every record of the batch,
\* every record whose write did not fail is upserted, and the documents of
\* a failing key are what they were before the failing write.
C15_FailedWriteIsSkipped ==
    /\ frequency \in {"hourly", "daily"} => pc # "failed"
    /\ pc = "saved" =>
           LET batch == BuildRecords(forecasts, now)
           IN  /\ Len(written) = Len(batch)
               /\ \A k \in 1..Len(batch) : written[k].doc = batch[k]
    /\ \A k \in 1..Len(written) :
           IF written[k].ok
           THEN \E x \in 1..Len(collection) :
                    /\ KeyOf(collection[x]) = KeyOf(written[k].doc)
                    /\ collection[x].pm2_5 = written[k].doc.pm2_5
                    /\ collection[x].timestamp = written[k].doc.timestamp
                    /\ collection[x].created_at = written[k].doc.created_at
           ELSE DocsOf(collection, written[k].doc) = written[k].prior

C15_Witness ==
    /\ pc = "saved"
    /\ Len(written) = 2
    /\ ~written[1].ok
    /\ written[2].ok
    /\ written[1].prior # {}
    /\ written[2].prior # {}

\* C16: for each device with n distinct months (months of the year, as
\* timestamp.dt.month gives them) taken in first-seen order,
\* the training split puts the device's rows of months 1..min(n, 8) in
\* train, those of month 9 in validation and those of months 10..n in test,
\* devices one after the other; n = 10 gives 8 / 1 / 1 months and n < 9 an
\* empty validation or test part for the device, and the split returns.
C16_SplitByMonthRank ==
    pc = "split" =>
        LET ids == Unique(Column(data, "device_id"))
            rank(rows, r) ==
                Cardinality({Month(rows[q]["timestamp"]) : q \in 1..r})
            part(lo, hi) ==
                [k \in 1..Len(ids) |->
                    LET rows == RowsOf(data, ids[k]).rows
                        keep == {r \in 1..Len(rows) :
                                    \E q \in 1..r :
                                        /\ Month(rows[q]["timestamp"]) = Month(rows[r]["timestamp"])
                                        /\ rank(rows, q) >= lo /\ rank(rows, q) <= hi
                                        /\ \A p \in 1..(q - 1) :
                                               Month(rows[p]["timestamp"]) # Month(rows[q]["timestamp"])}
                    IN  [r \in 1..Cardinality(keep) |->
                            rows[CHOOSE x \in keep : Cardinality({y \in keep : y <= x}) = r]]]
            flat(parts) == IF Len(parts) = 1 THEN parts[1] ELSE parts[1] \o parts[2]
            months(rows) == {Month(rows[r]["timestamp"]) : r \in 1..Len(rows)}
            d1(rows) == SelectSeq(rows, LAMBDA row : row["device_id"] = "d1")
        IN  /\ result.ok
            /\ result.parts.train_data.rows = flat(part(1, 8))
            /\ result.parts.validation_data.rows = flat(part(9, 9))
            /\ result.parts.test_data.rows = flat(part(10, 12))
            /\ Cardinality(months(d1(data.rows))) = 10 =>
                   /\ Cardinality(months(d1(result.parts.train_data.rows))) = 8
                   /\ Cardinality(months(d1(result.parts.validation_data.rows))) = 1
                   /\ Cardinality(months(d1(result.parts.test_data.rows))) = 1
            /\ Cardinality(months(d1(data.rows))) < 9 =>
                   d1(result.parts.validation_data.rows) = <<>>

C16_Witness ==
    /\ pc = "split"
    /\ Len(Unique(Column(data, "device_id"))) = 2
    /\ Len(MonthsOf(RowsOf(data, "d1"))) = 10
    /\ MonthsOf(RowsOf(data, "d1"))[1] = 8
    /\ NRows(result.parts.validation_data) = 1
    /\ NRows(result.parts.test_data) = 2
    /\ NRows(result.parts.train_data) > 12

----------------------------------------------------------------------------
(* preprocess_data *)

\* a series with only the cells filled that have a valid cell on both sides,
\* each with the point on the line through the nearest two
interpolate_inside(x) ==
    [p \in 1..Len(x) |->
        LET before == {q \in 1..(p - 1) : x[q] # NaN}
            after == {q \in (p + 1)..Len(x) : x[q] # NaN}
        IN  IF x[p] # NaN \/ before = {} \/ after = {} THEN x[p]
            ELSE LET pa == CHOOSE q \in before : \A o \in before : o <= q
                     pb == CHOOSE q \in after : \A o \in after : q <= o
                 IN  Lerp(x[pa], x[pb], pb - p, p - pa)]

\* the grouping of a preprocess run
GroupColumnsOf(j) == IF j = "prediction" THEN <<"device_id", "site_id">> ELSE <<"device_id">>

\* the pm2_5 series of the group of row r of df, and the place of r in it
GroupSeries(df, group_columns, r) ==
    LET member == {q \in 1..NRows(df) :
                     GroupKey(df.rows[q], group_columns) = GroupKey(df.rows[r], group_columns)}
        nth(n) == CHOOSE x \in member : Cardinality({y \in member : y <= x}) = n
    IN  [series |-> [n \in 1..Cardinality(member) |-> df.rows[nth(n)]["pm2_5"]],
         place |-> Cardinality({q \in member : q <= r})]

\* C17: on an hourly run, a fetched row (known by its device and hour) is in
\* the output of preprocess_data with its own pm2_5 if it has one, with the linearly interpolated value if
\* it has none and its group has an observed value before and after it, and
\* is not in the output otherwise; no output row has a missing pm2_5
C17_OnlyBoundedGapsAreFilled ==
    (pc = "preprocessed" /\ frequency = "hourly") =>
        /\ \A o \in 1..NRows(result.df) : result.df.rows[o]["pm2_5"] # NaN
        /\ \A r \in 1..NRows(source) :
              LET g == GroupSeries(source, GroupColumnsOf(job), r)
                  expected == interpolate_inside(g.series)[g.place]
                  out == {o \in 1..NRows(result.df) :
                            /\ result.df.rows[o]["device_id"] = source.rows[r]["device_id"]
                            /\ result.df.rows[o]["timestamp"][2] = source.rows[r]["timestamp"][2]}
              IN  IF expected = NaN THEN out = {}
                  ELSE /\ Cardinality(out) = 1
                       /\ \A o \in out : result.df.rows[o]["pm2_5"] = expected

\* C18: preprocess_data never returns a table for a frequency other than
\* "hourly" and "daily": the call fails and nothing is handed on
C18_UnsupportedFrequencyFails ==
    frequency \notin Frequencies => pc # "preprocessed"

\* C19: a call of preprocess_data on a table without device_id, pm2_5 or
\* timestamp fails, and a call of get_location_features on a table without
\* timestamp, latitude or longitude fails; the failed call leaves the table
\* it was given exactly as it was
C19_SchemaErrorBeforeChange ==
    [][/\ (pc = "fetched" /\ \E c \in {"device_id", "pm2_5", "timestamp"} : ~HasColumn(data, c))
            => (pc' = "failed" /\ ~result'.ok /\ data' = data)
       /\ (pc = "cyclic" /\ \E c \in {"timestamp", "latitude", "longitude"} : ~HasColumn(features, c))
            => (pc' = "failed" /\ features' = features)]_vars

\* a preprocess_data call has failed on a table with rows but without pm2_5
C19_Witness ==
    /\ pc = "failed"
    /\ ~result.ok
    /\ NRows(source) > 0
    /\ ~HasColumn(source, "pm2_5")
    /\ HasColumn(source, "timestamp")
    /\ data = source

----------------------------------------------------------------------------
(* The aborting forecast run *)

\* C20: when generate_forecasts starts (the step of a featured run that is
\* not the start of training) and the bucket has no model of the frequency,
\* the step ends the run as failed with no forecast row, no
\* device taken up, and the document store, the warehouse table and the
\* bucket as they were; and a failed run takes no further step, so neither
\* sink task runs
C20_LoadFailureAbortsRun ==
    [][/\ (/\ pc \in {"featured", "training"}
           /\ Idle
           /\ ~Exists(blobs, BlobPath(bucket, ModelKey(frequency)))
           /\ ~TrainModel)
            => /\ pc' = "failed"
               /\ NRows(forecasts') = 0
               /\ devices' = <<>>
               /\ UNCHANGED <<collection, forecast_results, written, events, stored, blobs>>
       /\ pc = "failed" => UNCHANGED vars]_vars

\* a run has failed on the load with a backup in the bucket and the forecasts
\* of an earlier run in both sinks
C20_Witness ==
    /\ pc = "failed"
    /\ NRows(features) > 0
    /\ forecast_model = NoArtifact
    /\ Exists(blobs, BackupPath(bucket, 0, ModelKey(frequency)))
    /\ ~Exists(blobs, BlobPath(bucket, ModelKey(frequency)))
    /\ collection # <<>>
    /\ events # <<>>

----------------------------------------------------------------------------
(* Isolation and determinism of generate_forecasts *)

\* the rows of a device in a table
OwnRows(df, device) == SelectSeq(df.rows, LAMBDA row : row["device_id"] = device)

\* a row of a device that is in neither input: the given row under another
\* device, with another target and another lag-1 value
Foreign(row, freq) ==
    [c \in DOMAIN row |->
        IF c = "device_id" THEN "d3"
        ELSE IF c = "site_id" THEN "s3"
        ELSE IF c = "pm2_5" THEN 7
        ELSE IF c = LagName(1, freq) THEN <<7>>
        ELSE row[c]]

\* inputs that differ from df only in rows of devices other than device:
\* those rows removed, changed, and rows of a further device added in front,
\* in between and behind
Alternatives(df, device, freq) ==
    LET rows == df.rows
        other == Foreign(rows[1], freq)
        changed == [r \in 1..Len(rows) |->
                       IF rows[r]["device_id"] = device THEN rows[r]
                       ELSE [Foreign(rows[r], freq) EXCEPT
                                !["device_id"] = rows[r]["device_id"],
                                !["site_id"] = rows[r]["site_id"]]]
    IN  {[df EXCEPT !.rows = OwnRows(df, device)],
         [df EXCEPT !.rows = changed],
         [df EXCEPT !.rows = <<other>> \o rows],
         [df EXCEPT !.rows = Append(rows, other)],
         [df EXCEPT !.rows = <<rows[1], other>> \o Tail(rows)]}

\* C21: the forecast rows of a device in the table a run returns are the
\* rows that generate_forecasts returns for the device on every input that
\* differs only in the rows of other devices (rows removed, changed, added),
\* with the same model, frequency, horizon and pandas build
C21_OtherDevicesDoNotMatter ==
    pc = "done" =>
        \A device \in Range(Column(features, "device_id")) :
            \A alt \in Alternatives(features, device, frequency) :
                OwnRows(generate_forecasts(alt, forecast_model, frequency, horizon, chained),
                        device)
                    = OwnRows(forecasts, device)

\* a run over two devices with interleaved rows has returned, its horizon
\* longer than one step
C21_Witness ==
    /\ pc = "done"
    /\ horizon >= 2
    /\ NRows(features) >= 3
    /\ Cardinality(Range(Column(features, "device_id"))) = 2
    /\ NRows(forecasts) = 2 * horizon

\* the second run on the input has returned, under the model, the horizon
\* and the pandas build of the first
SecondRunAlike ==
    /\ pc = "done"
    /\ "model" \in DOMAIN result
    /\ forecast_model = result.model
    /\ horizon = result.horizon
    /\ chained = result.mode

----------------------------------------------------------------------------
(* Cyclic features in the forecast loop *)

\* C23: after every loop iteration the cyclic columns of the appended row
\* hold the encoding of that row's own timestamp with the periods
\* (2023, 12, 30, 7, 23, 52), and the row handed to the model held the same
\* values
C23_CyclicOfNewTimestamp ==
    InLoop =>
        LET row == LastRow(df_tmp)
            names == CyclicNames(frequency)
            cells == CyclicOf(row["timestamp"], frequency)
        IN  \A k \in 1..Len(names) :
                /\ row[names[k]] = cells[k]
                /\ handed.values[IndexOf(handed.cols, names[k])] = cells[k]

----------------------------------------------------------------------------
(* Saves by one writer *)

\* C24 (the part on one writer per key): while the saves to a key come from
\* one writer, one after the other, every artifact that was written to the
\* active key is still stored, under the active key or under a backup key
C24_OneWriterLosesNothing ==
    pc = "registry" =>
        \A k \in 1..Len(saved) : \E b \in DOMAIN blobs : blobs[b] = saved[k]

----------------------------------------------------------------------------
(* The training run *)

\* the position of a stage in a training run
StageRank(stage) ==
    CASE stage = "raw" -> 0
      [] stage = "split" -> 1
      [] stage = "search" -> 2
      [] stage = "refit" -> 3
      [] stage = "uploading" -> 4
      [] stage = "registered" -> 5

\* C25: a training run goes from RAW to SPLIT to SEARCH to REFIT to
\* REGISTERED, one stage at a time and never back; the only steps that touch
\* the registry are those of the one save, which is entered after the refit
\* has completed and saves the refitted model, so a run that fails in SPLIT,
\* SEARCH or REFIT leaves the active artifact and the backups as they were
C25_StagesInOrderOneSave ==
    [][/\ pc' # pc =>
              \/ pc' = "failed" /\ pc \in {"raw", "split", "search"}
              \/ pc # "failed" /\ pc' # "failed" /\ StageRank(pc') = StageRank(pc) + 1
       /\ pc # "uploading" => blobs' = blobs /\ saved' = saved
       /\ pc' = "failed" => blobs' = blobs /\ saved = <<>>
       /\ saved' # saved => saved = <<>> /\ saved' = <<result.clf>>
       /\ pc' = "registered" =>
              /\ saved = <<result.clf>>
              /\ blobs[BlobPath(bucket, ModelKey(frequency))] = result.clf]_vars

C25_Witness ==
    /\ pc = "registered"
    /\ Len(saved) = 1
    /\ \E b \in DOMAIN blobs : blobs[b] = OldArtifact

\* the hyperparameters the search varies over a range
Searched ==
    {"colsample_bytree", "reg_alpha", "reg_lambda", "learning_rate", "num_leaves",
     "max_depth"}

\* C26: the refitted model has the best trial's value of every hyperparameter
\* the search varied: column subsample ratio, L1 and L2 regularisation,
\* learning rate, leaf count and depth
C26_RefitUsesEveryBestParam ==
    pc \in {"refit", "uploading", "registered"} =>
        \A name \in Searched : result.clf.params[name] = result.best_params[name]

----------------------------------------------------------------------------
(* Feature operations and the caller's table *)

\* C27: a feature operation leaves the table of its caller as it was: after
\* preprocess_data has returned, the caller's table has the columns and the
\* values it had before the call (a timestamp column parsed in place counts
\* as the same values)
C27_PreprocessLeavesInput ==
    [][PreprocessData /\ pc' = "preprocessed" => data' = ToDatetime(data)]_vars

----------------------------------------------------------------------------
(* The key of the model *)

\* C28: a forecast run that follows a completed training run of its
\* frequency loads the artifact that training saved: the load finds the key
\* and hands back that artifact, whatever else the bucket holds
C28_ForecastLoadsWhatTrainingSaved ==
    (saved # <<>> /\ pc # "training") =>
        /\ pc # "failed"
        /\ forecast_model = saved[Len(saved)]
        /\ blobs[BlobPath(bucket, ModelKey(frequency))] = saved[Len(saved)]

\* the run has loaded the model it trained from a bucket that also holds
\* the model of the other frequency
C28_Witness ==
    /\ pc = "devices"
    /\ saved # <<>>
    /\ forecast_model = saved[Len(saved)]
    /\ Exists(blobs, BlobPath(bucket, ModelKey(OtherFrequency(frequency))))

----------------------------------------------------------------------------
(* The training split as a partition *)

\* where the device's own month list puts a row: the first eight months it
\* is seen with go to train, the ninth to validation, the later ones to test
OwnPart(training_data, row) ==
    LET months == MonthsOf(RowsOf(training_data, row["device_id"]))
        rank == IndexOf(months, Month(row["timestamp"]))
    IN  IF rank <= 8 THEN "train_data"
        ELSE IF rank = 9 THEN "validation_data" ELSE "test_data"

PartNames == {"train_data", "validation_data", "test_data"}

\* C29: the split is a partition: every row of every device is in exactly
\* one of train, validation and test, once, no part holds anything else, and
\* the part of a row is the one its own device's month list gives
C29_SplitIsPartition ==
    pc = "split" =>
        LET parts == result.parts
            count(name, row) ==
                Cardinality({k \in 1..NRows(parts[name]) : parts[name].rows[k] = row})
        IN  /\ \A r \in 1..NRows(data) :
                   \A name \in PartNames :
                       count(name, data.rows[r]) =
                           IF name = OwnPart(data, data.rows[r]) THEN 1 ELSE 0
            /\ \A name \in PartNames :
                   Range(parts[name].rows) \subseteq Range(data.rows)

\* a split of two devices where the month list of the first device would
\* put a row of the second into another part than the one it is in
C29_Witness ==
    /\ pc = "split"
    /\ \E r \in 1..NRows(data) :
           LET row == data.rows[r]
               months == MonthsOf(RowsOf(data, "d1"))
           IN  /\ row["device_id"] = "d2"
               /\ \E k \in 1..NRows(result.parts.train_data) :
                      result.parts.train_data.rows[k] = row
               /\ \E k \in 9..Len(months) : months[k] = Month(row["timestamp"])
    /\ NRows(result.parts.validation_data) > 0
    /\ NRows(result.parts.test_data) > 0

----------------------------------------------------------------------------
(* The training split in time *)

\* the timestamps of the device's rows do not decrease
InTimeOrder(rows) ==
    \A r \in 1..(Len(rows) - 1) : rows[r]["timestamp"] <= rows[r + 1]["timestamp"]

\* C30: for every device whose rows arrive in timestamp order, every train
\* row is earlier than every validation row and every validation row is
\* earlier than every test row, also when the rows span more than twelve
\* months
C30_SplitIsTemporal ==
    pc = "split" =>
        \A d \in DeviceIds(data) :
            InTimeOrder(RowsOf(data, d).rows) =>
                LET train == RowsOf(result.parts.train_data, d).rows
                    val == RowsOf(result.parts.validation_data, d).rows
                    test == RowsOf(result.parts.test_data, d).rows
                    before(xs, ys) ==
                        \A a \in 1..Len(xs), b \in 1..Len(ys) :
                            xs[a]["timestamp"] < ys[b]["timestamp"]
                IN  before(train, val) /\ before(val, test) /\ before(train, test)

====
